---- MODULE Spec2Model ----
(***************************************************************************)
(* The confidence extractor and the model arbiter of the combined          *)
(* rice / wheat inference service (src/app.py).                            *)
(*                                                                         *)
(* Vendor responses are untyped JSON-like values.  Every value carries its *)
(* Python type in the field "type":                                        *)
(*   NoneType                          None                                *)
(*   float   val   : Int               a number, in hundredths (0.83 = 83) *)
(*   int     val, exp : Int            the integer val * 10^exp            *)
(*   str     chars : Seq(1-char str)   a string, character by character    *)
(*   list    items : Seq(value)                                            *)
(*   dict    fields: [keys -> value]                                       *)
(* Confidences are fixed-point hundredths, so sums and comparisons of the  *)
(* arbiter are exact.                                                      *)
(***************************************************************************)
EXTENDS Integers, Sequences, FiniteSets, TLC

VARIABLES Config, call, history, extraction, handler,
          uploads, workers, tester, batch

\* The state of the concurrent parts: requests served side by side, threads
\* inside the core functions, and the two fan-out tools.
concurrent == <<uploads, workers, tester, batch>>

vars == <<Config, call, history, extraction, handler, concurrent>>

(***************************************************************************)
(* JSON-like values                                                        *)
(***************************************************************************)
None == [type |-> "NoneType"]

Float(n) == [type |-> "float", val |-> n]

\* A JSON integer, of any size: n * 10^e.
Integer(n, e) == [type |-> "int", val |-> n, exp |-> e]

Str(cs) == [type |-> "str", chars |-> cs]

List(xs) == [type |-> "list", items |-> xs]

Dict(f) == [type |-> "dict", fields |-> f]

\* A key that a mapping under construction does not carry (never a value).
Absent == [type |-> "absent"]

\* The mapping that carries exactly the keys of ks whose choice is not Absent.
DictOf(ks, choice) ==
    Dict([k \in {x \in ks : choice[x] # Absent} |-> choice[k]])

EmptyDict == DictOf({}, <<>>)

EmptyList == List(<<>>)

\* isinstance(v, list), isinstance(v, dict)
IsList(v) == v.type = "list"

IsDict(v) == v.type = "dict"

\* Python truth value of v, as `or` and `if` test it.
Truthy(v) ==
    CASE v.type = "NoneType" -> FALSE
      [] v.type = "float" -> v.val # 0
      [] v.type = "int" -> v.val # 0
      [] v.type = "str" -> Len(v.chars) > 0
      [] v.type = "list" -> Len(v.items) > 0
      [] v.type = "dict" -> DOMAIN v.fields # {}

\* d.get(key, default)
Get(d, key, default) ==
    IF key \in DOMAIN d.fields THEN d.fields[key] ELSE default

\* a or b
Or(a, b) == IF Truthy(a) THEN a ELSE b

(***************************************************************************)
(* float(x): numbers pass, strings are parsed as [sign] digits [. digits], *)
(* anything else is a TypeError, an ill-formed string a ValueError, and an *)
(* integer beyond the range of a float (above 10^308; the inputs here use  *)
(* the exponents 0 and 400) an OverflowError.                              *)
(***************************************************************************)
Digits == <<"0", "1", "2", "3", "4", "5", "6", "7", "8", "9">>

IsDigit(c) == \E i \in DOMAIN Digits : Digits[i] = c

DigitValue(c) == (CHOOSE i \in DOMAIN Digits : Digits[i] = c) - 1

RECURSIVE DigitsValue(_)
DigitsValue(cs) ==
    IF cs = <<>> THEN 0
    ELSE DigitsValue(SubSeq(cs, 1, Len(cs) - 1)) * 10 + DigitValue(cs[Len(cs)])

ParseFloat(chars) ==
    LET signed == Len(chars) > 0 /\ chars[1] \in {"+", "-"}
        body == IF signed THEN Tail(chars) ELSE chars
        dots == {i \in 1..Len(body) : body[i] = "."}
        dot == IF dots = {} THEN Len(body) + 1 ELSE CHOOSE i \in dots : TRUE
        intPart == SubSeq(body, 1, dot - 1)
        fracPart == SubSeq(body, dot + 1, Len(body))
        wellFormed ==
            /\ Cardinality(dots) <= 1
            /\ \A i \in 1..Len(intPart) : IsDigit(intPart[i])
            /\ \A i \in 1..Len(fracPart) : IsDigit(fracPart[i])
            /\ Len(intPart) + Len(fracPart) > 0
        hundredths ==
            IF Len(fracPart) = 0 THEN 0
            ELSE IF Len(fracPart) = 1 THEN DigitValue(fracPart[1]) * 10
            ELSE DigitsValue(SubSeq(fracPart, 1, 2))
        magnitude == DigitsValue(intPart) * 100 + hundredths
    IN  IF wellFormed
        THEN [ok |-> TRUE, val |-> IF signed /\ chars[1] = "-"
                                   THEN 0 - magnitude ELSE magnitude,
              error |-> "none"]
        ELSE [ok |-> FALSE, val |-> 0, error |-> "ValueError"]

RECURSIVE Pow10(_)
Pow10(e) == IF e = 0 THEN 1 ELSE 10 * Pow10(e - 1)

ToFloat(v) ==
    CASE v.type = "float" -> [ok |-> TRUE, val |-> v.val, error |-> "none"]
      [] v.type = "int" ->
            IF v.exp > 308 /\ v.val # 0
            THEN [ok |-> FALSE, val |-> 0, error |-> "OverflowError"]
            ELSE [ok |-> TRUE, val |-> v.val * Pow10(v.exp) * 100,
                  error |-> "none"]
      [] v.type = "str" -> ParseFloat(v.chars)
      [] OTHER -> [ok |-> FALSE, val |-> 0, error |-> "TypeError"]

\* max(a, b) of two numbers
Max(a, b) == IF b > a THEN b ELSE a

(***************************************************************************)
(* Config: class attributes read from the environment when the module is   *)
(* imported.  An environment maps a variable name to its string; a name    *)
(* outside its domain is unset and os.getenv returns the default.          *)
(***************************************************************************)
\* str.lower(), on strings as sequences of characters.
UpperCase ==
    <<"A", "B", "C", "D", "E", "F", "G", "H", "I", "J", "K", "L", "M",
      "N", "O", "P", "Q", "R", "S", "T", "U", "V", "W", "X", "Y", "Z">>

LowerCase ==
    <<"a", "b", "c", "d", "e", "f", "g", "h", "i", "j", "k", "l", "m",
      "n", "o", "p", "q", "r", "s", "t", "u", "v", "w", "x", "y", "z">>

LowerChar(c) ==
    IF \E i \in DOMAIN UpperCase : UpperCase[i] = c
    THEN LowerCase[CHOOSE i \in DOMAIN UpperCase : UpperCase[i] = c]
    ELSE c

Lower(chars) == [i \in DOMAIN chars |-> LowerChar(chars[i])]

DEFAULT_MIN_CONFIDENCE == <<"0", ".", "4">>

DEFAULT_CONFIDENCE_MARGIN == <<"0", ".", "0", "2">>

DEFAULT_DEBUG == <<"f", "a", "l", "s", "e">>

ALLOWED_EXTENSIONS ==
    {<<"p", "n", "g">>, <<"j", "p", "g">>, <<"j", "p", "e", "g">>,
     <<"g", "i", "f">>, <<"b", "m", "p">>, <<"w", "e", "b", "p">>}

Getenv(env, name, default) == IF name \in DOMAIN env THEN env[name] ELSE default

ConfigFrom(env) ==
    [MIN_CONFIDENCE |->
        ParseFloat(Getenv(env, "MIN_CONFIDENCE", DEFAULT_MIN_CONFIDENCE)).val,
     CONFIDENCE_MARGIN |->
        ParseFloat(Getenv(env, "CONFIDENCE_MARGIN", DEFAULT_CONFIDENCE_MARGIN)).val,
     DEBUG |-> Lower(Getenv(env, "DEBUG", DEFAULT_DEBUG)) = <<"t", "r", "u", "e">>]

(***************************************************************************)
(* The outcome of a block of code: the value it returns, or the exception  *)
(* that leaves it.                                                         *)
(***************************************************************************)
Returns(value) == [raised |-> FALSE, val |-> value, error |-> "none"]

Raises(error, value) == [raised |-> TRUE, val |-> value, error |-> error]

\* str(e), the message of an exception.
Message(text) == [type |-> "message", text |-> text]

(***************************************************************************)
(* extract_max_confidence                                                  *)
(***************************************************************************)
\* The `or` chain of lines 184-189: the first truthy value among the three
\* keys, else 0.0.
ResolveConfidence(prediction) ==
    Or(Or(Or(Get(prediction, "confidence", None),
             Get(prediction, "score", None)),
          Get(prediction, "conf", None)),
       Float(0))

\* The loop of lines 179-197 over predictions_list, from max_confidence:
\* a ValueError or TypeError of float() is caught in the loop, any other
\* exception leaves it.
RECURSIVE MaxConfidenceLoop(_, _)
MaxConfidenceLoop(predictions_list, max_confidence) ==
    IF predictions_list = <<>> THEN Returns(max_confidence)
    ELSE LET prediction == Head(predictions_list)
             rest == Tail(predictions_list)
         IN  IF ~IsDict(prediction)
             THEN MaxConfidenceLoop(rest, max_confidence)
             ELSE LET confidence == ToFloat(ResolveConfidence(prediction))
                  IN  IF confidence.ok
                      THEN MaxConfidenceLoop(
                               rest, Max(max_confidence, confidence.val))
                      ELSE IF confidence.error \in {"ValueError", "TypeError"}
                      THEN MaxConfidenceLoop(rest, max_confidence)
                      ELSE Raises(confidence.error, 0)

\* The body of the try block, lines 160-197.
\* A variant that reads the last element of a sequence.
TryMaxConfidence_last_element(result) ==
    LET first == IF IsList(result) /\ Truthy(result)
                 THEN result.items[Len(result.items)] ELSE result
    IN  IF ~IsDict(first) THEN Returns(0)
        ELSE LET predictions_block == Get(first, "predictions", EmptyDict)
                 predictions_list ==
                     IF IsDict(predictions_block)
                     THEN Get(predictions_block, "predictions", EmptyList)
                     ELSE IF IsList(predictions_block)
                          THEN predictions_block ELSE EmptyList
             IN  IF ~IsList(predictions_list) THEN Returns(0)
                 ELSE MaxConfidenceLoop(predictions_list.items, 0)

\* A variant that knows the nested shape only.
TryMaxConfidence_nested_only(result) ==
    LET first == IF IsList(result) /\ Truthy(result)
                 THEN result.items[1] ELSE result
    IN  IF ~IsDict(first) THEN Returns(0)
        ELSE LET predictions_block == Get(first, "predictions", EmptyDict)
                 predictions_list ==
                     IF IsDict(predictions_block)
                     THEN Get(predictions_block, "predictions", EmptyList)
                     ELSE EmptyList
             IN  IF ~IsList(predictions_list) THEN Returns(0)
                 ELSE MaxConfidenceLoop(predictions_list.items, 0)

TryMaxConfidence(result) ==
    LET first == IF IsList(result) /\ Truthy(result)
                 THEN result.items[1] ELSE result
    IN  IF ~IsDict(first) THEN Returns(0)
        ELSE LET predictions_block == Get(first, "predictions", EmptyDict)
                 predictions_list ==
                     IF IsDict(predictions_block)
                     THEN Get(predictions_block, "predictions", EmptyList)
                     ELSE IF IsList(predictions_block)
                          THEN predictions_block ELSE EmptyList
             IN  IF ~IsList(predictions_list) THEN Returns(0)
                 ELSE MaxConfidenceLoop(predictions_list.items, 0)

\* A variant without the handler: the exception goes on to the caller.
ExceptMaxConfidence_reraise(outcome) == outcome

\* except Exception, lines 199-201: log and return 0.0.
ExceptMaxConfidence(outcome) ==
    IF outcome.raised THEN Returns(0) ELSE outcome

\* The call as its caller sees it, and the number it returns.
MaxConfidenceOutcome(result) == ExceptMaxConfidence(TryMaxConfidence(result))

extract_max_confidence(result) == MaxConfidenceOutcome(result).val

(***************************************************************************)
(* extract_predictions                                                     *)
(***************************************************************************)
\* A variant that returns only the detections whose confidence parses.
HasParseableConfidence(prediction) ==
    IsDict(prediction) /\ ToFloat(ResolveConfidence(prediction)).ok

TryPredictions_parseable_only(result) ==
    LET first == IF IsList(result) /\ Truthy(result)
                 THEN result.items[1] ELSE result
    IN  IF ~IsDict(first) THEN Returns(EmptyList)
        ELSE LET predictions_block == Get(first, "predictions", EmptyDict)
                 predictions_list ==
                     IF IsDict(predictions_block)
                     THEN Get(predictions_block, "predictions", EmptyList)
                     ELSE IF IsList(predictions_block)
                          THEN predictions_block ELSE EmptyList
             IN  IF IsList(predictions_list)
                 THEN Returns(List(SelectSeq(predictions_list.items,
                                             HasParseableConfidence)))
                 ELSE Returns(EmptyList)

\* A variant that returns the entries that are mappings only.
TryPredictions_mappings_only(result) ==
    LET first == IF IsList(result) /\ Truthy(result)
                 THEN result.items[1] ELSE result
    IN  IF ~IsDict(first) THEN Returns(EmptyList)
        ELSE LET predictions_block == Get(first, "predictions", EmptyDict)
                 predictions_list ==
                     IF IsDict(predictions_block)
                     THEN Get(predictions_block, "predictions", EmptyList)
                     ELSE IF IsList(predictions_block)
                          THEN predictions_block ELSE EmptyList
             IN  IF IsList(predictions_list)
                 THEN Returns(List(SelectSeq(predictions_list.items, IsDict)))
                 ELSE Returns(EmptyList)

\* A variant that unwraps a sequence inside a sequence as well.
TryPredictions_unwrap_twice(result) ==
    LET once == IF IsList(result) /\ Truthy(result)
                THEN result.items[1] ELSE result
        first == IF IsList(once) /\ Truthy(once) THEN once.items[1] ELSE once
    IN  IF ~IsDict(first) THEN Returns(EmptyList)
        ELSE LET predictions_block == Get(first, "predictions", EmptyDict)
                 predictions_list ==
                     IF IsDict(predictions_block)
                     THEN Get(predictions_block, "predictions", EmptyList)
                     ELSE IF IsList(predictions_block)
                          THEN predictions_block ELSE EmptyList
             IN  IF IsList(predictions_list) THEN Returns(predictions_list)
                 ELSE Returns(EmptyList)

\* The body of the try block, lines 215-229.
TryPredictions(result) ==
    LET first == IF IsList(result) /\ Truthy(result)
                 THEN result.items[1] ELSE result
    IN  IF ~IsDict(first) THEN Returns(EmptyList)
        ELSE LET predictions_block == Get(first, "predictions", EmptyDict)
                 predictions_list ==
                     IF IsDict(predictions_block)
                     THEN Get(predictions_block, "predictions", EmptyList)
                     ELSE IF IsList(predictions_block)
                          THEN predictions_block ELSE EmptyList
             IN  IF IsList(predictions_list) THEN Returns(predictions_list)
                 ELSE Returns(EmptyList)

\* except Exception, lines 231-233: log and return [].
ExceptPredictions(outcome) ==
    IF outcome.raised THEN Returns(EmptyList) ELSE outcome

PredictionsOutcome(result) == ExceptPredictions(TryPredictions(result))

extract_predictions(result) == PredictionsOutcome(result).val

(***************************************************************************)
(* select_best_model: the returned tuple (chosen, confidence, source) and  *)
(* the message it logs on the way out, which names the return statement.   *)
(***************************************************************************)
\* The attribute reads Config.MIN_CONFIDENCE and Config.CONFIDENCE_MARGIN.
MinConfidence_default == ParseFloat(DEFAULT_MIN_CONFIDENCE).val

MinConfidence == Config.MIN_CONFIDENCE

ConfidenceMargin_default == ParseFloat(DEFAULT_CONFIDENCE_MARGIN).val

ConfidenceMargin == Config.CONFIDENCE_MARGIN

Return(chosen, confidence, source, message) ==
    [chosen |-> chosen, confidence |-> confidence,
     source |-> source, log |-> message]

\* Both below the minimum: "none", with the higher of the two.
BelowMinimum_strict(rice_confidence, wheat_confidence, rice_result, wheat_result) ==
    IF rice_confidence > wheat_confidence
    THEN Return("none", rice_confidence, rice_result, "below minimum")
    ELSE Return("none", wheat_confidence, wheat_result, "below minimum")

BelowMinimum_zero(rice_confidence, wheat_confidence, rice_result, wheat_result) ==
    IF rice_confidence >= wheat_confidence
    THEN Return("none", 0, rice_result, "below minimum")
    ELSE Return("none", 0, wheat_result, "below minimum")

BelowMinimum(rice_confidence, wheat_confidence, rice_result, wheat_result) ==
    IF rice_confidence >= wheat_confidence
    THEN Return("none", rice_confidence, rice_result, "below minimum")
    ELSE Return("none", wheat_confidence, wheat_result, "below minimum")

\* Otherwise: the margin tests, rice first, then the close competition.
AboveMinimum_wheat_first(rice_confidence, wheat_confidence, rice_result, wheat_result) ==
    IF wheat_confidence >= rice_confidence + ConfidenceMargin
    THEN Return("wheat", wheat_confidence, wheat_result, "with margin")
    ELSE IF rice_confidence >= wheat_confidence + ConfidenceMargin
    THEN Return("rice", rice_confidence, rice_result, "with margin")
    ELSE IF rice_confidence >= wheat_confidence
    THEN Return("rice", rice_confidence, rice_result, "close competition")
    ELSE Return("wheat", wheat_confidence, wheat_result, "close competition")

AboveMinimum_strict_tie(rice_confidence, wheat_confidence, rice_result, wheat_result) ==
    IF rice_confidence >= wheat_confidence + ConfidenceMargin
    THEN Return("rice", rice_confidence, rice_result, "with margin")
    ELSE IF wheat_confidence >= rice_confidence + ConfidenceMargin
    THEN Return("wheat", wheat_confidence, wheat_result, "with margin")
    ELSE IF rice_confidence > wheat_confidence
    THEN Return("rice", rice_confidence, rice_result, "close competition")
    ELSE Return("wheat", wheat_confidence, wheat_result, "close competition")

\* A variant whose close competition goes to wheat.
AboveMinimum_close_to_wheat(rice_confidence, wheat_confidence, rice_result, wheat_result) ==
    IF rice_confidence >= wheat_confidence + ConfidenceMargin
    THEN Return("rice", rice_confidence, rice_result, "with margin")
    ELSE IF wheat_confidence >= rice_confidence + ConfidenceMargin
    THEN Return("wheat", wheat_confidence, wheat_result, "with margin")
    ELSE Return("wheat", wheat_confidence, wheat_result, "close competition")

AboveMinimum(rice_confidence, wheat_confidence, rice_result, wheat_result) ==
    IF rice_confidence >= wheat_confidence + ConfidenceMargin
    THEN Return("rice", rice_confidence, rice_result, "with margin")
    ELSE IF wheat_confidence >= rice_confidence + ConfidenceMargin
    THEN Return("wheat", wheat_confidence, wheat_result, "with margin")
    ELSE IF rice_confidence >= wheat_confidence
    THEN Return("rice", rice_confidence, rice_result, "close competition")
    ELSE Return("wheat", wheat_confidence, wheat_result, "close competition")

\* A variant that keeps the last answer while the responses keep their shape.
select_best_model_sticky(rice_result, wheat_result) ==
    LET rice_confidence == extract_max_confidence(rice_result)
        wheat_confidence == extract_max_confidence(wheat_result)
    IN  IF call.made /\ call.ret.chosen # "none"
        THEN IF call.ret.chosen = "rice"
             THEN Return("rice", rice_confidence, rice_result, "with margin")
             ELSE Return("wheat", wheat_confidence, wheat_result, "with margin")
        ELSE IF rice_confidence < MinConfidence /\ wheat_confidence < MinConfidence
        THEN BelowMinimum(rice_confidence, wheat_confidence,
                          rice_result, wheat_result)
        ELSE AboveMinimum(rice_confidence, wheat_confidence,
                          rice_result, wheat_result)

\* A variant that, of two models close to each other, prefers the one whose
\* response arrived first.
select_best_model_first_arrived(rice_result, wheat_result) ==
    LET rice_confidence == extract_max_confidence(rice_result)
        wheat_confidence == extract_max_confidence(wheat_result)
        wheat_arrived_first == /\ "events" \in DOMAIN handler
                               /\ handler.events # <<>>
                               /\ handler.events[1] = "wheat"
    IN  IF rice_confidence < MinConfidence /\ wheat_confidence < MinConfidence
        THEN BelowMinimum(rice_confidence, wheat_confidence,
                          rice_result, wheat_result)
        ELSE IF wheat_arrived_first /\ wheat_confidence >= rice_confidence
        THEN Return("wheat", wheat_confidence, wheat_result, "close competition")
        ELSE AboveMinimum(rice_confidence, wheat_confidence,
                          rice_result, wheat_result)

\* A variant without the minimum: the more confident model is always chosen.
select_best_model_no_minimum(rice_result, wheat_result) ==
    LET rice_confidence == extract_max_confidence(rice_result)
        wheat_confidence == extract_max_confidence(wheat_result)
    IN  AboveMinimum(rice_confidence, wheat_confidence,
                     rice_result, wheat_result)

select_best_model(rice_result, wheat_result) ==
    LET rice_confidence == extract_max_confidence(rice_result)
        wheat_confidence == extract_max_confidence(wheat_result)
    IN  IF rice_confidence < MinConfidence /\ wheat_confidence < MinConfidence
        THEN BelowMinimum(rice_confidence, wheat_confidence,
                          rice_result, wheat_result)
        ELSE AboveMinimum(rice_confidence, wheat_confidence,
                          rice_result, wheat_result)

(***************************************************************************)
(* Inputs: the vendor responses the calls are made with.                   *)
(***************************************************************************)
MaxDetections == 2

MaxCalls == 3

S_083 == <<"0", ".", "8", "3">>

S_high == <<"h", "i", "g", "h">>

S_empty == <<>>

DetectionKeys == {"confidence", "score", "conf", "class"}

\* An integer no float can hold.
HugeInt == Integer(1, 400)

ConfidenceChoices ==
    {Absent, None, Float(0), Float(50), Float(0 - 10),
     Str(S_083), Str(S_high), Str(S_empty), Integer(1, 0), HugeInt}

\* The confidences that `or` passes over, and two that it keeps, for the
\* detections that carry an alias as well.
AliasedChoices == {Absent, None, Float(0), Str(S_empty), Float(50), Str(S_high)}

Detection(confidence, score, conf) ==
    DictOf(DetectionKeys,
           [confidence |-> confidence, score |-> score, conf |-> conf,
            class |-> Str(<<"r", "i", "c", "e">>)])

Detections ==
    {Detection(c, Absent, Absent) : c \in ConfidenceChoices}
        \cup {Detection(c, Float(90), Absent) : c \in AliasedChoices}
        \cup {Detection(c, Str(S_high), Float(70)) : c \in {Absent, None}}
        \cup {Detection(Absent, Absent, Float(70)),
              Detection(Float(50), Float(90), Float(70))}

\* What a detections collection may hold: detections, and entries that are
\* no mapping at all.
Entries == Detections \cup {None, Str(S_high)}

DetectionLists(longest) == UNION {[1..n -> Entries] : n \in 0..longest}

\* {"predictions": {"predictions": [...]}}
Nested(detections) ==
    Dict([predictions |-> Dict([predictions |-> List(detections)])])

\* {"predictions": [...]}
Flat(detections) == Dict([predictions |-> List(detections)])

\* [response, ...]
Wrapped(responses) == List(responses)

D50 == Detection(Float(50), Absent, Absent)

D90 == Detection(Float(90), Absent, Absent)

OddResponses ==
    {None, Float(50), Str(S_high), EmptyList, EmptyDict,
     Wrapped(<<None>>),
     Wrapped(<<Wrapped(<<Nested(<<D50>>)>>)>>),
     Wrapped(<<Nested(<<D50>>), Nested(<<D90>>)>>),
     Wrapped(<<Flat(<<>>), Nested(<<D50>>)>>),
     Dict([predictions |-> None]),
     Dict([predictions |-> Str(S_high)]),
     Dict([predictions |-> Float(50)]),
     Dict([predictions |-> EmptyDict]),
     Dict([predictions |-> Dict([predictions |-> None])]),
     Dict([predictions |-> Dict([predictions |-> Str(S_high)])]),
     Dict([predictions |-> Dict([predictions |-> Nested(<<D50>>)])]),
     Dict([detections |-> List(<<D50>>)])}

Responses ==
    {Nested(l) : l \in DetectionLists(MaxDetections)}
        \cup {Flat(l) : l \in DetectionLists(MaxDetections - 1)}
        \cup {Wrapped(<<Nested(l)>>) : l \in DetectionLists(MaxDetections - 1)}
        \cup OddResponses

\* The responses the arbiter is called with: one detection at each level of
\* confidence, and a few of the other shapes.
ConfidenceLevels == {10, 35, 39, 40, 47, 50, 52}

ArbiterResponses ==
    {Nested(<<Detection(Float(c), Absent, Absent)>>) : c \in ConfidenceLevels}
        \cup {Nested(<<>>),
              Wrapped(<<Nested(<<Detection(Str(S_083), Absent, Absent), D50>>)>>),
              Flat(<<Detection(Absent, Float(45), Absent)>>),
              Flat(<<Detection(Float(35), Absent, Absent)>>),
              Flat(<<D50>>)}

HistoryResponses ==
    {Nested(<<Detection(Float(c), Absent, Absent)>>) : c \in {35, 47, 50}}

\* The environments the process may be started in.
Environments ==
    {[n \in {} |-> S_empty]}
        \cup {[MIN_CONFIDENCE |-> <<"0", ".", "5">>]}
        \cup {[CONFIDENCE_MARGIN |-> m] :
                 m \in {<<"0">>, <<"0", ".", "0", "5">>, <<"-", "0", ".", "0", "5">>}}
        \cup {[MIN_CONFIDENCE |-> <<"0", ".", "5">>, CONFIDENCE_MARGIN |-> m] :
                 m \in {<<"0">>, <<"0", ".", "0", "5">>, <<"-", "0", ".", "0", "5">>}}

(***************************************************************************)
(* State and operations                                                    *)
(*   Config      the configuration of the process                          *)
(*   call        the last call of select_best_model: what the caller       *)
(*               passed and what came back                                 *)
(*   history     the calls of select_best_model so far, in order           *)
(*   extraction  the last call of the two extractors on one response       *)
(*   handler     the request being served (POST /predict, or a run of the  *)
(*               command line), where it stands and what it did so far     *)
(*   uploads     file-upload requests served side by side, and the         *)
(*               temporary files on disk                                   *)
(*   workers     threads inside the core functions, and their memory       *)
(*   tester      PerformanceTester.run_concurrent_test                     *)
(*   batch       BatchProcessor.process_files / process_urls               *)
(***************************************************************************)
NoCall == [made |-> FALSE]

Idle == [pc |-> "idle"]

NoConcurrency ==
    uploads = Idle /\ workers = Idle /\ tester = Idle /\ batch = Idle

Init ==
    /\ \E env \in Environments : Config = ConfigFrom(env)
    /\ call = NoCall
    /\ history = <<>>
    /\ extraction = NoCall
    /\ handler = Idle
    /\ NoConcurrency

\* select_best_model(rice_result, wheat_result), as its callers call it
\* (positional, two arguments).
CallRecord(rice_result, wheat_result) ==
    [made |-> TRUE,
     args |-> [rice_result |-> rice_result, wheat_result |-> wheat_result],
     ret |-> select_best_model(rice_result, wheat_result)]

SelectBestModel(rice_result, wheat_result) ==
    /\ call' = CallRecord(rice_result, wheat_result)
    /\ UNCHANGED <<Config, history, extraction, handler, concurrent>>

\* The same call, kept in the history of the process.
SelectBestModelAgain(rice_result, wheat_result) ==
    /\ Len(history) < MaxCalls
    /\ call' = CallRecord(rice_result, wheat_result)
    /\ history' = Append(history, call')
    /\ UNCHANGED <<Config, extraction, handler, concurrent>>

\* A response arrives from the vendor and waits to be read.
InitExtractor ==
    /\ Config = ConfigFrom([n \in {} |-> S_empty])
    /\ call = NoCall
    /\ history = <<>>
    /\ \E result \in Responses : extraction = [made |-> FALSE, result |-> result]
    /\ handler = Idle
    /\ NoConcurrency

\* extract_max_confidence(result) and extract_predictions(result) on the
\* response that waits.
Extract ==
    /\ ~extraction.made
    /\ extraction' = [made |-> TRUE,
                      result |-> extraction.result,
                      raised |->
                          \/ MaxConfidenceOutcome(extraction.result).raised
                          \/ PredictionsOutcome(extraction.result).raised,
                      max_confidence |->
                          extract_max_confidence(extraction.result),
                      predictions |-> extract_predictions(extraction.result)]
    /\ UNCHANGED <<Config, call, history, handler, concurrent>>

NextArbiter ==
    \E rice_result, wheat_result \in ArbiterResponses :
        SelectBestModel(rice_result, wheat_result)

NextHistory ==
    \E rice_result, wheat_result \in HistoryResponses :
        SelectBestModelAgain(rice_result, wheat_result)

NextExtractor == Extract

SpecArbiter == Init /\ [][NextArbiter]_vars

SpecHistory == Init /\ [][NextHistory]_vars

SpecExtractor == InitExtractor /\ [][NextExtractor]_vars

(***************************************************************************)
(* run_workflow: one call of the vendor's client.  `remote` is what the    *)
(* client does with the call: it returns a response or raises an error.    *)
(***************************************************************************)
\* try/except of lines 134-146: the response is returned as it came, the
\* exception is logged and raised again as it came.
run_workflow(remote) ==
    IF remote.raised THEN Raises(remote.error, remote.val)
    ELSE Returns(remote.val)

\* The calls of the client that one run_workflow makes, by workflow.
\* A variant that tries once more after a failure.
RemoteCalls_retry(workflow, remote) ==
    IF remote.raised THEN <<workflow, workflow>> ELSE <<workflow>>

RemoteCalls(workflow, remote) == <<workflow>>

(***************************************************************************)
(* Uploaded files                                                          *)
(***************************************************************************)
HasDot(chars) == \E i \in DOMAIN chars : chars[i] = "."

\* filename.rsplit('.', 1)[1], for a name that has a dot
AfterLastDot(chars) ==
    LET last == CHOOSE i \in DOMAIN chars :
                    /\ chars[i] = "."
                    /\ \A j \in DOMAIN chars : j > i => chars[j] # "."
    IN  SubSeq(chars, last + 1, Len(chars))

allowed_file(filename) ==
    IF filename = <<>> THEN FALSE
    ELSE HasDot(filename) /\ Lower(AfterLastDot(filename)) \in ALLOWED_EXTENSIONS

\* The path of the temporary file mkstemp creates.
TempPath == Str(<<"/", "t", "m", "p", "/", "x">>)

\* save_uploaded_file: the outcome, and what became of the temporary file.
save_uploaded_file(file_storage) ==
    IF file_storage.filename = <<>>
    THEN [outcome |-> Raises("ValueError", Message("No file provided")), temp |-> "none"]
    ELSE IF ~allowed_file(file_storage.filename)
    THEN [outcome |-> Raises("ValueError", Message("File type not allowed")),
          temp |-> "none"]
    ELSE IF file_storage.save_fails
    THEN [outcome |-> Raises("OSError", Message("cannot save")), temp |-> "removed"]
    ELSE [outcome |-> Returns(TempPath), temp |-> "exists"]

(***************************************************************************)
(* POST /predict: the request, and the response of the handler.            *)
(*   request.files    field name -> uploaded file                          *)
(*   request.is_json  the content type is JSON                             *)
(*   request.json     the parsed body, any JSON value                      *)
(***************************************************************************)
NoResponse == [sent |-> FALSE]

Response(status, body) == [sent |-> TRUE, status |-> status, body |-> body]

IMAGE_URL == <<"i", "m", "a", "g", "e", "_", "u", "r", "l">>

IsSubstring(sub, chars) ==
    \E i \in 0..(Len(chars) - Len(sub)) :
        SubSeq(chars, i + 1, i + Len(sub)) = sub

\* `'image_url' in data` is defined for a mapping (a key), a sequence (an
\* element) and a string (a substring); on anything else it is a TypeError.
SupportsIn(data) == data.type \in {"dict", "list", "str"}

HasImageUrl(data) ==
    CASE data.type = "dict" -> "image_url" \in DOMAIN data.fields
      [] data.type = "list" ->
            \E i \in DOMAIN data.items : data.items[i] = Str(IMAGE_URL)
      [] data.type = "str" -> IsSubstring(IMAGE_URL, data.chars)

Parsed(outcome, temp) ==
    [response |-> NoResponse, outcome |-> outcome, temp |-> temp]

Rejected(message) ==
    [response |-> Response(400, [error |-> message]),
     outcome |-> Returns(None), temp |-> "none"]

\* Lines 356-389: the response returned early, or the exception raised, or
\* the image source to go on with.
ParseRequest(request) ==
    IF DOMAIN request.files # {} /\ "image" \in DOMAIN request.files
    THEN LET saved == save_uploaded_file(request.files["image"])
         IN  Parsed(saved.outcome, saved.temp)
    ELSE IF request.is_json
    THEN LET data == request.json
         IN  IF ~Truthy(data)
             THEN Rejected("JSON request must include 'image_url' field")
             ELSE IF ~SupportsIn(data)
             THEN Parsed(Raises("TypeError", Message("argument is not iterable")),
                         "none")
             ELSE IF ~HasImageUrl(data)
             THEN Rejected("JSON request must include 'image_url' field")
             ELSE IF ~IsDict(data)
             THEN Parsed(Raises("TypeError", Message("indices must be integers")),
                         "none")
             ELSE IF ~Truthy(data.fields.image_url)
             THEN Rejected("No image provided")
             ELSE Parsed(Returns(data.fields.image_url), "none")
    ELSE Rejected("Request must be multipart/form-data or JSON")

\* Lines 399-404: the response to a failed workflow call.
WorkflowFailure(exception) ==
    Response(500, [error |-> "Workflow execution failed",
                   details |-> exception.val])

\* Lines 432-441: the response to an exception raised anywhere else.
HandleException(exception) ==
    IF exception.error = "ValueError"
    THEN Response(400, [error |-> exception.val])
    ELSE Response(500, [error |-> "Internal server error",
                        details |-> IF Config.DEBUG THEN exception.val
                                    ELSE Message("Please check logs")])

\* select_best_model as its caller sees it: it has no handler of its own, so
\* an exception of extract_max_confidence would leave it.
SelectBestModelOutcome(rice_result, wheat_result) ==
    IF MaxConfidenceOutcome(rice_result).raised
    THEN MaxConfidenceOutcome(rice_result)
    ELSE IF MaxConfidenceOutcome(wheat_result).raised
    THEN MaxConfidenceOutcome(wheat_result)
    ELSE Returns(select_best_model(rice_result, wheat_result))

\* round(x, ndigits), on a number given in hundredths: to the nearest
\* multiple of 10^-ndigits, to the even one when halfway; two decimals or
\* more keep every hundredth.
Round(x, ndigits) ==
    IF ndigits >= 2 THEN x
    ELSE LET unit == Pow10(2 - ndigits)
             quotient == x \div unit
             rest == x % unit
         IN  IF 2 * rest < unit THEN quotient * unit
             ELSE IF 2 * rest > unit THEN (quotient + 1) * unit
             ELSE IF quotient % 2 = 0 THEN quotient * unit
             ELSE (quotient + 1) * unit

Round4(x) == Round(x, 4)

\* A variant that always lists the detections of the rice response.
Success_rice_detections(selected, rice_result, wheat_result) ==
    IF selected.raised THEN HandleException(selected)
    ELSE LET chosen_result == selected.val.source
             predictions == PredictionsOutcome(rice_result)
         IN  IF predictions.raised THEN HandleException(predictions)
             ELSE Response(200,
                          [chosen_model |-> selected.val.chosen,
                           confidence |-> Round4(selected.val.confidence),
                           detections |-> predictions.val,
                           detection_count |-> Len(predictions.val.items),
                           raw |-> chosen_result,
                           metadata |->
                               [rice_confidence |->
                                    Round4(extract_max_confidence(rice_result)),
                                wheat_confidence |->
                                    Round4(extract_max_confidence(wheat_result)),
                                min_confidence_threshold |-> MinConfidence,
                                confidence_margin |-> ConfidenceMargin]])

\* Lines 411-429: the response once select_best_model has been called, with
\* `selected` its outcome.
Success(selected, rice_result, wheat_result) ==
    IF selected.raised THEN HandleException(selected)
    ELSE LET chosen_result == selected.val.source
             predictions == PredictionsOutcome(chosen_result)
         IN  IF predictions.raised THEN HandleException(predictions)
             ELSE Response(200,
                          [chosen_model |-> selected.val.chosen,
                           confidence |-> Round4(selected.val.confidence),
                           detections |-> predictions.val,
                           detection_count |-> Len(predictions.val.items),
                           raw |-> chosen_result,
                           metadata |->
                               [rice_confidence |->
                                    Round4(extract_max_confidence(rice_result)),
                                wheat_confidence |->
                                    Round4(extract_max_confidence(wheat_result)),
                                min_confidence_threshold |-> MinConfidence,
                                confidence_margin |-> ConfidenceMargin]])

\* Where the handler goes after a workflow call: lines 394-398 and 474-475.
\* A variant that calls wheat whatever the rice call did.
AfterRice_always_wheat(outcome) == "wheat"

AfterRice(outcome) == IF outcome.raised THEN "failed" ELSE "wheat"

\* A variant that goes on whatever the wheat call did.
AfterWheat_always_select(outcome) == "select"

AfterWheat(outcome) == IF outcome.raised THEN "failed" ELSE "select"

(***************************************************************************)
(* The requests served, and what the vendor may answer.                    *)
(***************************************************************************)
Filenames ==
    {<<"a", ".", "j", "p", "g">>, <<"a", ".", "b", ".", "P", "N", "G">>,
     <<"a", ".", "t", "x", "t">>, <<"j", "p", "g">>, <<>>}

NoFiles == [n \in {} |-> None]

Upload(field, filename, save_fails) ==
    [files |-> [n \in {field} |->
                   [filename |-> filename, save_fails |-> save_fails]],
     is_json |-> FALSE, json |-> None]

Json(body) == [files |-> NoFiles, is_json |-> TRUE, json |-> body]

Url == Str(<<"h", "t", "t", "p", ":", "/", "/", "x">>)

JsonBodies ==
    {Dict([image_url |-> Url]), Dict([image_url |-> Url, use_cache |-> None]),
     Dict([image_url |-> Str(S_empty)]), Dict([image_url |-> None]),
     Dict([url |-> Url]), EmptyDict, EmptyList, None,
     Integer(1, 0), Integer(0, 0), Float(50),
     Str(S_high), Str(IMAGE_URL), List(<<Str(IMAGE_URL)>>), List(<<Url>>)}

Requests ==
    {Upload("image", name, fails) : name \in Filenames, fails \in BOOLEAN}
        \cup {Upload("document", <<"a", ".", "j", "p", "g">>, FALSE)}
        \cup {Json(body) : body \in JsonBodies}
        \cup {[files |-> NoFiles, is_json |-> FALSE, json |-> None]}

\* python app.py <image_path> --format json
CliRuns == {[image_path |-> Url, exists |-> e, output_format |-> "json"] : e \in BOOLEAN}

WorkflowResponses ==
    {Wrapped(<<Nested(<<D90>>)>>),
     Wrapped(<<Nested(<<Detection(Float(35), Absent, Absent)>>)>>),
     Wrapped(<<Nested(<<D50, Detection(HugeInt, Absent, Absent)>>)>>),
     EmptyList}

WorkflowErrors ==
    {Raises("ConnectionError", Message("connection refused")),
     Raises("ValueError", Message("invalid api key"))}

WorkflowOutcomes == {Returns(r) : r \in WorkflowResponses} \cup WorkflowErrors

HandlerEnvironments ==
    {[n \in {} |-> S_empty]}
        \cup {[DEBUG |-> d] : d \in {<<"t", "r", "u", "e">>, <<"T", "r", "u", "e">>, <<"1">>}}

(***************************************************************************)
(* The handler, step by step.                                              *)
(***************************************************************************)
Pending == [raised |-> FALSE, val |-> None, error |-> "pending"]

NewHandler(kind, request) ==
    [kind |-> kind, pc |-> "start", request |-> request,
     image_source |-> None, temp |-> "none",
     rice_remote |-> Pending, rice |-> Pending,
     wheat_remote |-> Pending, wheat |-> Pending,
     events |-> <<>>, select |-> Pending, response |-> NoResponse]

InitHandler ==
    /\ \E env \in HandlerEnvironments : Config = ConfigFrom(env)
    /\ call = NoCall
    /\ history = <<>>
    /\ extraction = NoCall
    /\ \/ \E request \in Requests : handler = NewHandler("predict", request)
       \/ \E run \in CliRuns : handler = NewHandler("cli", run)
    /\ NoConcurrency

\* predict, lines 352-391: the request is read and checked.
Parse ==
    /\ handler.pc = "start" /\ handler.kind = "predict"
    /\ LET parsed == ParseRequest(handler.request)
       IN  handler' =
               IF parsed.response.sent
               THEN [handler EXCEPT !.pc = "finally",
                                    !.response = parsed.response]
               ELSE IF parsed.outcome.raised
               THEN [handler EXCEPT !.pc = "finally",
                                    !.temp = parsed.temp,
                                    !.response = HandleException(parsed.outcome)]
               ELSE [handler EXCEPT !.pc = "rice",
                                    !.temp = parsed.temp,
                                    !.image_source = parsed.outcome.val]
    /\ UNCHANGED <<Config, call, history, extraction, concurrent>>

\* predict_from_cli, lines 465-471.
CliStart ==
    /\ handler.pc = "start" /\ handler.kind = "cli"
    /\ handler' =
           IF ~handler.request.exists
           THEN [handler EXCEPT !.pc = "done",
                                !.response = [sent |-> TRUE,
                                              printed |-> "not found"]]
           ELSE [handler EXCEPT !.pc = "rice",
                                !.image_source = handler.request.image_path]
    /\ UNCHANGED <<Config, call, history, extraction, concurrent>>

\* run_workflow(Config.RICE_WORKFLOW_ID, ...), lines 395-396 and 474.
RunRice ==
    /\ handler.pc = "rice"
    /\ \E remote \in WorkflowOutcomes :
           handler' = [handler EXCEPT
                          !.rice_remote = remote,
                          !.rice = run_workflow(remote),
                          !.events = handler.events \o RemoteCalls("rice", remote),
                          !.pc = AfterRice(run_workflow(remote))]
    /\ UNCHANGED <<Config, call, history, extraction, concurrent>>

\* run_workflow(Config.WHEAT_WORKFLOW_ID, ...), lines 397-398 and 475.
RunWheat ==
    /\ handler.pc = "wheat"
    /\ \E remote \in WorkflowOutcomes :
           handler' = [handler EXCEPT
                          !.wheat_remote = remote,
                          !.wheat = run_workflow(remote),
                          !.events = handler.events \o RemoteCalls("wheat", remote),
                          !.pc = AfterWheat(run_workflow(remote))]
    /\ UNCHANGED <<Config, call, history, extraction, concurrent>>

\* A workflow call raised: lines 399-404, and 525-527 on the command line.
WorkflowFailed ==
    /\ handler.pc = "failed"
    /\ LET exception == IF handler.rice.raised THEN handler.rice
                        ELSE handler.wheat
       IN  handler' =
               IF handler.kind = "predict"
               THEN [handler EXCEPT !.pc = "finally",
                                    !.response = WorkflowFailure(exception)]
               ELSE [handler EXCEPT !.pc = "done",
                                    !.response = [sent |-> TRUE,
                                                  printed |-> "error",
                                                  message |-> exception.val]]
    /\ UNCHANGED <<Config, call, history, extraction, concurrent>>

\* Both workflow calls returned: select_best_model, extract_predictions and
\* the answer; lines 407-429, and 478-493 on the command line.
Respond ==
    /\ handler.pc = "select"
    /\ \E selected \in
              {SelectBestModelOutcome(handler.rice.val, handler.wheat.val)} :
           handler' =
               IF handler.kind = "predict"
               THEN [handler EXCEPT
                        !.pc = "finally",
                        !.events = Append(handler.events, "select_best_model"),
                        !.select = selected,
                        !.response = Success(selected, handler.rice.val,
                                             handler.wheat.val)]
               ELSE [handler EXCEPT
                        !.pc = "done",
                        !.events = Append(handler.events, "select_best_model"),
                        !.select = selected,
                        !.response =
                            IF selected.raised
                            THEN [sent |-> TRUE, printed |-> "error",
                                  message |-> selected.val]
                            ELSE [sent |-> TRUE, printed |-> "output",
                                  output |->
                                      [chosen_model |-> selected.val.chosen,
                                       confidence |-> selected.val.confidence,
                                       detections |->
                                           extract_predictions(selected.val.source),
                                       raw |-> selected.val.source]]]
    /\ UNCHANGED <<Config, call, history, extraction, concurrent>>

\* predict, lines 443-450: the temporary file is removed, the response goes
\* out.
Finally ==
    /\ handler.pc = "finally"
    /\ handler' = [handler EXCEPT
                      !.pc = "done",
                      !.temp = IF handler.temp = "exists" THEN "removed"
                               ELSE handler.temp]
    /\ UNCHANGED <<Config, call, history, extraction, concurrent>>

NextHandler ==
    \/ Parse
    \/ CliStart
    \/ RunRice
    \/ RunWheat
    \/ WorkflowFailed
    \/ Respond
    \/ Finally

SpecHandler == InitHandler /\ [][NextHandler]_vars

(***************************************************************************)
(* The arbiter's properties, on the last call of select_best_model.        *)
(***************************************************************************)
RiceResult == call.args.rice_result

WheatResult == call.args.wheat_result

RiceConf == extract_max_confidence(RiceResult)

WheatConf == extract_max_confidence(WheatResult)

BothBelow ==
    RiceConf < Config.MIN_CONFIDENCE /\ WheatConf < Config.MIN_CONFIDENCE

\* C1: when both maximum confidences are strictly below min_confidence the
\* call returns "none" with the confidence and the source of the model whose
\* raw confidence is higher, rice's on a tie.
C1_BelowMinimumIsNone ==
    (call.made /\ BothBelow) =>
        /\ call.ret.chosen = "none"
        /\ RiceConf >= WheatConf =>
               call.ret.confidence = RiceConf /\ call.ret.source = RiceResult
        /\ RiceConf < WheatConf =>
               call.ret.confidence = WheatConf /\ call.ret.source = WheatResult

\* rice 0.1, wheat 0.35, min_confidence 0.4: ("none", 0.35, wheat's response)
C1_Witness ==
    /\ call.made
    /\ Config.MIN_CONFIDENCE = 40
    /\ RiceConf = 10 /\ WheatConf = 35
    /\ call.ret.chosen = "none"
    /\ call.ret.confidence = 35
    /\ call.ret.source = WheatResult
    /\ call.ret.source # RiceResult

\* C2: when the two are not both below min_confidence, rice is returned
\* through the margin branch if rice_conf >= wheat_conf + margin; failing that,
\* wheat is returned through the margin branch if
\* wheat_conf >= rice_conf + margin.
C2_MarginOrder ==
    (call.made /\ ~BothBelow) =>
        /\ RiceConf >= WheatConf + Config.CONFIDENCE_MARGIN =>
               call.ret = Return("rice", RiceConf, RiceResult, "with margin")
        /\ (/\ ~(RiceConf >= WheatConf + Config.CONFIDENCE_MARGIN)
            /\ WheatConf >= RiceConf + Config.CONFIDENCE_MARGIN) =>
               call.ret = Return("wheat", WheatConf, WheatResult, "with margin")

\* rice 0.50, wheat 0.47, margin 0.02, min_confidence 0.4: rice, with margin
C2_Witness ==
    /\ call.made
    /\ Config.MIN_CONFIDENCE = 40 /\ Config.CONFIDENCE_MARGIN = 2
    /\ RiceConf = 50 /\ WheatConf = 47
    /\ call.ret.chosen = "rice"
    /\ call.ret.log = "with margin"

CloseCompetition ==
    /\ ~BothBelow
    /\ ~(RiceConf >= WheatConf + Config.CONFIDENCE_MARGIN)
    /\ ~(WheatConf >= RiceConf + Config.CONFIDENCE_MARGIN)

\* C3: in a close competition (not both below min_confidence, neither ahead
\* by the margin) the model with the higher raw confidence is chosen, rice
\* on an exact tie.
C3_CloseCompetition ==
    (call.made /\ CloseCompetition) =>
        /\ RiceConf >= WheatConf =>
               /\ call.ret.chosen = "rice"
               /\ call.ret.confidence = RiceConf
               /\ call.ret.source = RiceResult
        /\ RiceConf < WheatConf =>
               /\ call.ret.chosen = "wheat"
               /\ call.ret.confidence = WheatConf
               /\ call.ret.source = WheatResult

\* rice 0.5 = wheat 0.5, margin 0.02, min_confidence 0.4: rice
C3_Witness ==
    /\ call.made
    /\ Config.MIN_CONFIDENCE = 40 /\ Config.CONFIDENCE_MARGIN = 2
    /\ RiceConf = 50 /\ WheatConf = 50
    /\ RiceResult # WheatResult
    /\ call.ret.chosen = "rice"
    /\ call.ret.source = RiceResult
    /\ call.ret.log = "close competition"

\* C4: in every branch the returned confidence is the maximum confidence of
\* the returned source, and the source is one of the two responses passed,
\* as passed.
C4_ConfidenceOfSource ==
    call.made =>
        /\ call.ret.confidence = extract_max_confidence(call.ret.source)
        /\ call.ret.source \in {RiceResult, WheatResult}

\* "none" is returned with the confidence of a source that has detections
C4_Witness ==
    /\ call.made
    /\ call.ret.chosen = "none"
    /\ call.ret.confidence = 35
    /\ extract_predictions(call.ret.source) # EmptyList

Arbitrate(rice_conf, wheat_conf, min_confidence, margin) ==
    IF rice_conf < min_confidence /\ wheat_conf < min_confidence
    THEN [chosen |-> "none",
          winner |-> IF rice_conf >= wheat_conf THEN "rice" ELSE "wheat"]
    ELSE IF rice_conf >= wheat_conf + margin
    THEN [chosen |-> "rice", winner |-> "rice"]
    ELSE IF wheat_conf >= rice_conf + margin
    THEN [chosen |-> "wheat", winner |-> "wheat"]
    ELSE IF rice_conf >= wheat_conf
    THEN [chosen |-> "rice", winner |-> "rice"]
    ELSE [chosen |-> "wheat", winner |-> "wheat"]

AgreesWith(decision) ==
    /\ call.ret.chosen = decision.chosen
    /\ call.ret.source =
           IF decision.winner = "rice" THEN RiceResult ELSE WheatResult
    /\ call.ret.confidence =
           IF decision.winner = "rice" THEN RiceConf ELSE WheatConf

\* C6, as stated: the threshold and the margin that decide a call are
\* arguments of that call.
C6_ThresholdsArePassed ==
    call.made =>
        /\ {"min_confidence", "margin"} \subseteq DOMAIN call.args
        /\ AgreesWith(Arbitrate(RiceConf, WheatConf,
                                call.args.min_confidence, call.args.margin))

\* C6, amended: a call takes the two responses only, and is decided by the
\* threshold and the margin of the process configuration.
C6_ThresholdsAreConfig ==
    call.made =>
        /\ DOMAIN call.args = {"rice_result", "wheat_result"}
        /\ AgreesWith(Arbitrate(RiceConf, WheatConf,
                                Config.MIN_CONFIDENCE, Config.CONFIDENCE_MARGIN))

\* a process started with MIN_CONFIDENCE=0.5 answers "none" to 0.47 and 0.35
C6_Witness ==
    /\ call.made
    /\ Config.MIN_CONFIDENCE = 50
    /\ RiceConf = 47 /\ WheatConf = 35
    /\ call.ret.chosen = "none"

(***************************************************************************)
(* The extractor's properties, on the last call of the two extractors.     *)
(***************************************************************************)
\* The response after a non-empty sequence is replaced by its first element.
Unwrapped(response) ==
    IF IsList(response) /\ response.items # <<>>
    THEN response.items[1] ELSE response

\* The detections collection of a mapping, as the specification locates it.
LocatedIn(response) ==
    IF "predictions" \notin DOMAIN response.fields
    THEN <<>>
    ELSE LET block == response.fields.predictions
         IN  IF IsDict(block)
             THEN IF /\ "predictions" \in DOMAIN block.fields
                     /\ IsList(block.fields.predictions)
                  THEN block.fields.predictions.items
                  ELSE <<>>
             ELSE IF IsList(block) THEN block.items ELSE <<>>

\* The detections collection of any response: empty when the response,
\* unwrapped, is no mapping.
Collection(response) ==
    IF IsDict(Unwrapped(response)) THEN LocatedIn(Unwrapped(response))
    ELSE <<>>

ConfidenceKeys == <<"confidence", "score", "conf">>

\* The detection's confidence by key presence: the value of the first of
\* the three keys the detection carries, 0.0 when it carries none.
PresentConfidence(detection) ==
    IF "confidence" \in DOMAIN detection.fields
    THEN detection.fields.confidence
    ELSE IF "score" \in DOMAIN detection.fields
    THEN detection.fields.score
    ELSE IF "conf" \in DOMAIN detection.fields
    THEN detection.fields.conf
    ELSE Float(0)

SetMax(S) == CHOOSE x \in S : \A y \in S : y <= x

\* No entry of the collection carries, under any of the three keys, a value
\* that parses as a number.
NoParseableConfidence(response) ==
    LET collection == Collection(response)
    IN  \A i \in DOMAIN collection :
            IsDict(collection[i]) =>
                \A k \in DOMAIN ConfidenceKeys :
                    ConfidenceKeys[k] \in DOMAIN collection[i].fields =>
                        ~ToFloat(collection[i].fields[ConfidenceKeys[k]]).ok

\* C7, as stated: a response with no detection of parseable confidence gives
\* 0.0 and an empty sequence of predictions.
C7_NoParseableGivesEmpty ==
    (extraction.made /\ NoParseableConfidence(extraction.result)) =>
        /\ extraction.max_confidence = 0
        /\ extraction.predictions = EmptyList

\* C7, amended: such a response gives 0.0, and extract_predictions returns
\* its detections collection as it is, empty only when the collection is.
C7_NoParseableGivesZero ==
    (extraction.made /\ NoParseableConfidence(extraction.result)) =>
        /\ extraction.max_confidence = 0
        /\ extraction.predictions = List(Collection(extraction.result))

\* one detection, {"confidence": "high"}: 0.0, and the detection is returned
C7_Witness ==
    /\ extraction.made
    /\ NoParseableConfidence(extraction.result)
    /\ Collection(extraction.result) = <<Detection(Str(S_high), Absent, Absent)>>
    /\ extraction.max_confidence = 0
    /\ extraction.predictions.items # <<>>

NumericString(entry) ==
    /\ IsDict(entry)
    /\ PresentConfidence(entry).type = "str"
    /\ ToFloat(PresentConfidence(entry)).ok

NonNumeric(entry) == IsDict(entry) /\ ~ToFloat(PresentConfidence(entry)).ok

Numeric(entry) == ~NonNumeric(entry)

\* C8: a detection whose confidence is a numeric string counts in the
\* maximum; a detection whose confidence is not numeric is skipped, the
\* maximum being that of the collection without it, and it is still in the
\* list extract_predictions returns.
C8_CoercedOrSkipped ==
    extraction.made =>
        LET collection == Collection(extraction.result)
        IN  /\ \A i \in DOMAIN collection :
                   NumericString(collection[i]) =>
                       extraction.max_confidence
                           >= ToFloat(PresentConfidence(collection[i])).val
            /\ extraction.max_confidence =
                   MaxConfidenceLoop(SelectSeq(collection, Numeric), 0).val
            /\ extraction.predictions = List(collection)

\* C9: the confidence of a detection is the value of the first key it
\* carries among confidence, score, conf (0.0 when it carries none), so the
\* maximum is the greatest of these values that parse, and 0.0.
C9_FirstKeyPresent ==
    extraction.made =>
        LET collection == Collection(extraction.result)
            parsed ==
                {ToFloat(PresentConfidence(collection[i])).val :
                    i \in {j \in DOMAIN collection :
                              /\ IsDict(collection[j])
                              /\ ToFloat(PresentConfidence(collection[j])).ok}}
        IN  extraction.max_confidence = SetMax(parsed \cup {0})

\* C10: both extractors work on the same collection: the nested sequence
\* when "predictions" is a mapping or absent, "predictions" itself when it is
\* a sequence, the empty sequence in every other case.
C10_SameCollection ==
    (extraction.made /\ IsDict(Unwrapped(extraction.result))) =>
        LET located == LocatedIn(Unwrapped(extraction.result))
        IN  /\ extraction.predictions = List(located)
            /\ extraction.max_confidence =
                   ExceptMaxConfidence(MaxConfidenceLoop(located, 0)).val

\* {"predictions": [d]} with d of confidence 0.5: the sequence itself
C10_Witness ==
    /\ extraction.made
    /\ extraction.result = Flat(<<D50>>)
    /\ extraction.predictions = List(<<D50>>)
    /\ extraction.max_confidence = 50

\* A response that is a non-empty sequence.
NonEmptySequence(response) == IsList(response) /\ response.items # <<>>

\* C11, as stated: for a non-empty sequence the results of both extractors
\* are their results for its first element alone.
C11_FirstElementAlone ==
    (extraction.made /\ NonEmptySequence(extraction.result)) =>
        LET first == extraction.result.items[1]
        IN  /\ extraction.max_confidence = extract_max_confidence(first)
            /\ extraction.predictions = extract_predictions(first)

\* C11, amended: for a non-empty sequence the results are those of the
\* sequence of its first element alone, whatever follows it; they are the
\* results for the first element itself unless that element is again a
\* non-empty sequence, and then they are 0.0 and the empty list.
C11_FirstElementOnly ==
    (extraction.made /\ NonEmptySequence(extraction.result)) =>
        LET first == extraction.result.items[1]
        IN  /\ extraction.max_confidence =
                   extract_max_confidence(List(<<first>>))
            /\ extraction.predictions = extract_predictions(List(<<first>>))
            /\ ~NonEmptySequence(first) =>
                   /\ extraction.max_confidence = extract_max_confidence(first)
                   /\ extraction.predictions = extract_predictions(first)
            /\ NonEmptySequence(first) =>
                   /\ extraction.max_confidence = 0
                   /\ extraction.predictions = EmptyList

\* [r1, r2] with a detection of 0.5 in r1 and one of 0.9 in r2: 0.5, and the
\* detection of r1
C11_Witness ==
    /\ extraction.made
    /\ extraction.result = Wrapped(<<Nested(<<D50>>), Nested(<<D90>>)>>)
    /\ extraction.max_confidence = 50
    /\ extraction.predictions = List(<<D50>>)

\* C12: when the response, after the unwrapping, is not a mapping (an
\* empty sequence, a scalar, null, a sequence whose first element is again a
\* sequence) the extractors return 0.0 and the empty sequence.
C12_NotAMappingGivesDefaults ==
    (extraction.made /\ ~IsDict(Unwrapped(extraction.result))) =>
        /\ extraction.max_confidence = 0
        /\ extraction.predictions = EmptyList

\* [[r]], r holding a detection of 0.5: 0.0 and []
C12_Witness ==
    /\ extraction.made
    /\ extraction.result = Wrapped(<<Wrapped(<<Nested(<<D50>>)>>)>>)
    /\ ~IsDict(Unwrapped(extraction.result))
    /\ extraction.max_confidence = 0
    /\ extraction.predictions = EmptyList

\* C13: extract_max_confidence returns the maximum of 0.0 and the coerced
\* confidences: it is never negative, and never lower than the confidence
\* of any detection of the collection whose confidence parses.
C13_MaxOfZeroAndParseable ==
    extraction.made =>
        LET collection == Collection(extraction.result)
        IN  /\ extraction.max_confidence >= 0
            /\ \A i \in DOMAIN collection :
                   (/\ IsDict(collection[i])
                    /\ ToFloat(PresentConfidence(collection[i])).ok) =>
                       extraction.max_confidence
                           >= ToFloat(PresentConfidence(collection[i])).val

\* The response has the shape {"predictions": {"predictions": L}}, L a list.
IsNestedShape(response) ==
    /\ IsDict(response)
    /\ "predictions" \in DOMAIN response.fields
    /\ IsDict(response.fields.predictions)
    /\ "predictions" \in DOMAIN response.fields.predictions.fields
    /\ IsList(response.fields.predictions.fields.predictions)

\* C14: for a response {"predictions": {"predictions": L}} extract_predictions
\* returns L itself, unmodified; and extract_predictions applied to the
\* response rebuilt from what it returned returns the same list again.
C14_RoundTrip ==
    extraction.made =>
        /\ IsNestedShape(extraction.result) =>
               extraction.predictions =
                   extraction.result.fields.predictions.fields.predictions
        /\ extract_predictions(Nested(extraction.predictions.items))
               = extraction.predictions

\* L = [d, null], d of confidence 0.5: both entries come back, in order
C14_Witness ==
    /\ extraction.made
    /\ extraction.result = Nested(<<D50, None>>)
    /\ extraction.predictions = List(<<D50, None>>)
    /\ extract_predictions(Nested(extraction.predictions.items))
           = List(<<D50, None>>)

\* C15: no exception leaves an extractor, whatever the shape of the
\* response; a fault inside extract_max_confidence ends in 0.0, one inside
\* extract_predictions in the empty list.
C15_NeverPropagates ==
    extraction.made =>
        /\ ~extraction.raised
        /\ TryMaxConfidence(extraction.result).raised =>
               extraction.max_confidence = 0
        /\ TryPredictions(extraction.result).raised =>
               extraction.predictions = EmptyList

\* a detection whose confidence is an integer no float can hold: float()
\* raises OverflowError inside the loop, and the call returns 0.0
C15_Witness ==
    /\ extraction.made
    /\ TryMaxConfidence(extraction.result).raised
    /\ TryMaxConfidence(extraction.result).error = "OverflowError"
    /\ ~extraction.raised
    /\ extraction.max_confidence = 0

(***************************************************************************)
(* The handler's properties, on the request being served.                  *)
(***************************************************************************)
\* The workflow call was made and returned a response.
Returned(outcome) == ~outcome.raised /\ outcome.error = "none"

SelectInvoked ==
    \E i \in DOMAIN handler.events : handler.events[i] = "select_best_model"

RemoteCallsOf(workflow) ==
    Cardinality({i \in DOMAIN handler.events : handler.events[i] = workflow})

\* C16: select_best_model never raises, whatever the two responses; so when
\* both workflow calls of a POST /predict have returned, the request ends
\* with a success response whose chosen_model is rice, wheat or none.
C16_SelectionNeverFails ==
    /\ ~handler.select.raised
    /\ (/\ handler.kind = "predict" /\ handler.pc = "done"
        /\ Returned(handler.rice) /\ Returned(handler.wheat)) =>
           /\ handler.response.sent
           /\ handler.response.status = 200
           /\ handler.response.body.chosen_model \in {"rice", "wheat", "none"}
           /\ handler.response.body.chosen_model = handler.select.val.chosen

\* rice's response holds a confidence no float can hold, wheat's is empty:
\* 200, chosen_model "none"
C16_Witness ==
    /\ handler.kind = "predict" /\ handler.pc = "done"
    /\ Returned(handler.rice) /\ Returned(handler.wheat)
    /\ TryMaxConfidence(handler.rice.val).raised
    /\ handler.wheat.val = EmptyList
    /\ handler.response.status = 200
    /\ handler.response.body.chosen_model = "none"

\* C17: in POST /predict and on the command line select_best_model is
\* invoked only after both workflow calls have returned, rice's first; when
\* either call fails it is never invoked.
C17_SelectAfterBothReturned ==
    /\ SelectInvoked =>
           /\ Returned(handler.rice) /\ Returned(handler.wheat)
           /\ handler.events = <<"rice", "wheat", "select_best_model">>
    /\ (handler.rice.raised \/ handler.wheat.raised) => ~SelectInvoked
    /\ (handler.pc = "done" /\ Returned(handler.rice) /\ Returned(handler.wheat))
           => SelectInvoked

\* on the command line rice's call returns and wheat's fails: the run ends
\* with an error and without a call of select_best_model
C17_Witness ==
    /\ handler.kind = "cli" /\ handler.pc = "done"
    /\ Returned(handler.rice) /\ handler.wheat.raised
    /\ handler.events = <<"rice", "wheat">>
    /\ handler.response.printed = "error"

\* C18: run_workflow calls the vendor once and never again; what the call
\* raised is raised unmodified, what it returned is returned unmodified; a
\* request makes at most one call per workflow, two in all.
C18_OneCallUnmodified ==
    /\ RemoteCallsOf("rice") <= 1 /\ RemoteCallsOf("wheat") <= 1
    /\ RemoteCallsOf("rice") + RemoteCallsOf("wheat") <= 2
    /\ handler.rice_remote # Pending =>
           /\ RemoteCallsOf("rice") = 1
           /\ handler.rice = handler.rice_remote
    /\ handler.wheat_remote # Pending =>
           /\ RemoteCallsOf("wheat") = 1
           /\ handler.wheat = handler.wheat_remote
    /\ handler.rice_remote = Pending => RemoteCallsOf("rice") = 0
    /\ handler.wheat_remote = Pending => RemoteCallsOf("wheat") = 0

\* rice's call is refused: one call, none of wheat, and the handler holds
\* the vendor's own exception
C18_Witness ==
    /\ handler.kind = "predict" /\ handler.pc = "done"
    /\ handler.rice_remote = Raises("ConnectionError", Message("connection refused"))
    /\ handler.rice = handler.rice_remote
    /\ handler.events = <<"rice">>
    /\ handler.response.body.details = Message("connection refused")

\* The caller's input is invalid: no image file and no JSON body, a JSON body
\* without image_url or with an empty one, an uploaded file whose extension
\* is not allowed.
InvalidInput(request) ==
    IF "image" \in DOMAIN request.files
    THEN /\ request.files["image"].filename # <<>>
         /\ ~allowed_file(request.files["image"].filename)
    ELSE \/ ~request.is_json
         \/ ~IsDict(request.json)
         \/ "image_url" \notin DOMAIN request.json.fields
         \/ request.json.fields.image_url \in {Str(S_empty), None}

\* C19: invalid caller input ends in HTTP 400, and neither a workflow call
\* nor select_best_model is made for it.
C19_InvalidInputIs400 ==
    (/\ handler.kind = "predict" /\ handler.pc = "done"
     /\ InvalidInput(handler.request)) =>
        /\ handler.response.sent
        /\ handler.response.status = 400
        /\ handler.events = <<>>
        /\ handler.select = Pending

\* C20: a workflow call that fails during POST /predict gives a 500-class
\* response, which outside debug mode does not carry the message of the
\* underlying error.
C20_FailureIs500Suppressed ==
    (/\ handler.kind = "predict" /\ handler.pc = "done"
     /\ (handler.rice.raised \/ handler.wheat.raised)) =>
        LET exception == IF handler.rice.raised THEN handler.rice
                         ELSE handler.wheat
        IN  /\ handler.response.sent
            /\ handler.response.status \in 500..599
            /\ ~Config.DEBUG =>
                   ("details" \in DOMAIN handler.response.body =>
                        handler.response.body.details # exception.val)

(***************************************************************************)
(* What the margin can and cannot do.                                      *)
(***************************************************************************)
\* C27: with a margin >= 0 the margin does not matter: the call returns what
\* it would return with margin 0, that is "none" when both confidences are
\* below min_confidence and otherwise rice exactly when
\* rice_conf >= wheat_conf; so the model of lower confidence is chosen only
\* when the margin is negative.
C27_MarginHasNoEffect ==
    /\ (call.made /\ Config.CONFIDENCE_MARGIN >= 0) =>
           /\ AgreesWith(Arbitrate(RiceConf, WheatConf,
                                   Config.MIN_CONFIDENCE, 0))
           /\ call.ret.chosen = "none" <=> BothBelow
           /\ ~BothBelow => (call.ret.chosen = "rice" <=> RiceConf >= WheatConf)
    /\ (/\ call.made
        /\ \/ call.ret.chosen = "rice" /\ RiceConf < WheatConf
           \/ call.ret.chosen = "wheat" /\ WheatConf < RiceConf) =>
           Config.CONFIDENCE_MARGIN < 0

\* rice 0.50, wheat 0.47, margin 0.05: neither is ahead by the margin, and
\* rice is chosen as with margin 0
C27_Witness ==
    /\ call.made
    /\ Config.CONFIDENCE_MARGIN = 5
    /\ RiceConf = 50 /\ WheatConf = 47
    /\ call.ret.chosen = "rice"
    /\ call.ret.log = "close competition"

\* C28: with a margin >= 0 the returned confidence is the greater of the two
\* confidences in every branch, and a model is reported as chosen only with a
\* confidence of at least min_confidence.
C28_ConfidenceIsMaximum ==
    (call.made /\ Config.CONFIDENCE_MARGIN >= 0) =>
        /\ call.ret.confidence = Max(RiceConf, WheatConf)
        /\ call.ret.chosen \in {"rice", "wheat"} =>
               call.ret.confidence >= Config.MIN_CONFIDENCE

\* rice 0.35 is below the minimum 0.4, wheat 0.5 is not: wheat, 0.5
C28_Witness ==
    /\ call.made
    /\ Config.CONFIDENCE_MARGIN >= 0 /\ Config.MIN_CONFIDENCE = 40
    /\ RiceConf = 35 /\ WheatConf = 50
    /\ call.ret.chosen = "wheat"
    /\ call.ret.confidence = 50

(***************************************************************************)
(* The two extractors against each other.                                  *)
(***************************************************************************)
\* The confidences that float() yields for the mapping entries of a list of
\* detections, each resolved as the loop resolves it.
CoercedConfidences(entries) ==
    {ToFloat(ResolveConfidence(entries[i])).val :
        i \in {j \in DOMAIN entries :
                  /\ IsDict(entries[j])
                  /\ ToFloat(ResolveConfidence(entries[j])).ok}}

\* C29: on every response extract_max_confidence is the maximum of 0.0 and
\* the coerced confidences of the mapping entries of what extract_predictions
\* returns; so a maximum above 0 comes with a non-empty list of predictions,
\* and an empty list with the maximum 0.0.
C29_ExtractorsAgree ==
    extraction.made =>
        /\ extraction.max_confidence =
               SetMax(CoercedConfidences(extraction.predictions.items) \cup {0})
        /\ extraction.max_confidence > 0 => extraction.predictions # EmptyList
        /\ extraction.predictions = EmptyList => extraction.max_confidence = 0

(***************************************************************************)
(* The success response of POST /predict.                                  *)
(***************************************************************************)
SuccessResponse ==
    /\ handler.kind = "predict"
    /\ handler.response.sent
    /\ handler.response.status = 200

\* C24: a success response agrees with the arbitration: raw is the source
\* select_best_model chose, detections is extract_predictions(raw),
\* detection_count is the length of detections, and confidence is the chosen
\* confidence, rounded, which is metadata.rice_confidence when the source is
\* rice's response and metadata.wheat_confidence when it is wheat's.
C24_ResponseAgreesWithArbitration ==
    SuccessResponse =>
        LET body == handler.response.body
        IN  /\ body.chosen_model = handler.select.val.chosen
            /\ body.raw = handler.select.val.source
            /\ body.detections = extract_predictions(body.raw)
            /\ body.detection_count = Len(body.detections.items)
            /\ body.confidence = Round4(handler.select.val.confidence)
            /\ body.raw = handler.rice.val =>
                   body.confidence = body.metadata.rice_confidence
            /\ body.raw = handler.wheat.val =>
                   body.confidence = body.metadata.wheat_confidence

\* rice 0.35, wheat 0.9: wheat's response is raw, with its one detection
C24_Witness ==
    /\ SuccessResponse
    /\ handler.response.body.chosen_model = "wheat"
    /\ handler.response.body.raw = handler.wheat.val
    /\ handler.response.body.raw # handler.rice.val
    /\ handler.response.body.detections = List(<<D90>>)
    /\ handler.response.body.detection_count = 1
    /\ handler.response.body.confidence = 90
    /\ handler.response.body.metadata.rice_confidence = 35

(***************************************************************************)
(* The order of the two workflow calls.                                    *)
(***************************************************************************)
\* C26: the two calls are made one after the other: wheat's call starts only
\* after rice's call has returned, and when rice's call fails wheat's
\* workflow is not called for the request.
C26_WheatAfterRice ==
    /\ (handler.pc = "wheat" \/ RemoteCallsOf("wheat") > 0) =>
           /\ Returned(handler.rice)
           /\ handler.events[1] = "rice"
    /\ RemoteCallsOf("wheat") > 0 => handler.events[2] = "wheat"
    /\ handler.rice.raised =>
           /\ RemoteCallsOf("wheat") = 0
           /\ handler.wheat_remote = Pending

\* POST /predict whose rice call raises: the request ends with the one call
C26_Witness ==
    /\ handler.kind = "predict" /\ handler.pc = "done"
    /\ handler.rice.raised /\ handler.rice.error = "ValueError"
    /\ handler.events = <<"rice">>
    /\ handler.wheat_remote = Pending
    /\ handler.response.status = 500

(***************************************************************************)
(* File uploads served side by side: each request of POST /predict runs    *)
(* in its own thread of the server, and all share the directory of         *)
(* temporary files.                                                        *)
(*   uploads.requests   request -> where it stands, its file and paths     *)
(*   uploads.disk       the temporary files that exist: path and creator   *)
(*   uploads.removals   every os.remove that removed a file: who removed   *)
(*                      whose file                                         *)
(***************************************************************************)
MaxUploads == 2

Uploaders == 1..MaxUploads

TempPaths == 1..MaxUploads

\* temp_file_path = None
NoPath == 0

UploadedFiles ==
    {[filename |-> <<"a", ".", "j", "p", "g">>, save_fails |-> FALSE],
     [filename |-> <<"a", ".", "j", "p", "g">>, save_fails |-> TRUE],
     [filename |-> <<"a", ".", "t", "x", "t">>, save_fails |-> FALSE]}

\* How the handler goes on after the upload is saved: the success response,
\* a failed workflow call, an exception anywhere else.
UploadEndings ==
    {[at |-> "response", outcome |-> Returns(None)]}
    \cup {[at |-> "workflow", outcome |-> e] : e \in WorkflowErrors}
    \cup {[at |-> "elsewhere",
           outcome |-> Raises("RuntimeError", Message("unexpected"))]}

\* The status the handler answers an ending with: lines 426, 400-404, 432-441.
EndingStatus(ending) ==
    IF ending.at = "response" THEN 200
    ELSE IF ending.at = "workflow" THEN WorkflowFailure(ending.outcome).status
    ELSE HandleException(ending.outcome).status

NewUpload(file) ==
    [pc |-> "start", file |-> file, temp_path |-> NoPath,
     temp_file_path |-> NoPath, remove_failed |-> FALSE, status |-> 0]

InitUploads ==
    /\ Config = ConfigFrom([n \in {} |-> S_empty])
    /\ call = NoCall
    /\ history = <<>>
    /\ extraction = NoCall
    /\ handler = Idle
    /\ \E files \in [Uploaders -> UploadedFiles] :
           uploads = [pc |-> "serving",
                      requests |-> [i \in Uploaders |-> NewUpload(files[i])],
                      disk |-> {}, removals |-> {}]
    /\ workers = Idle /\ tester = Idle /\ batch = Idle

\* tempfile.mkstemp creates a file under a name no existing file has.
FreePaths(disk) == {path \in TempPaths : \A f \in disk : f.path # path}

\* os.path.exists(path), and what os.remove(path) leaves and removes.
Exists(disk, path) == \E f \in disk : f.path = path

Without(disk, path) == {f \in disk : f.path # path}

RemovedBy(request, disk, path) ==
    {[by |-> request, owner |-> f.owner] : f \in {g \in disk : g.path = path}}

\* `if temp_file_path and os.path.exists(temp_file_path)`, line 445.
\* A variant that cleans up after a success only.
FinallyRemoves_on_success(request, disk) ==
    /\ request.temp_file_path # NoPath
    /\ request.status = 200
    /\ Exists(disk, request.temp_file_path)

FinallyRemoves(request, disk) ==
    /\ request.temp_file_path # NoPath
    /\ Exists(disk, request.temp_file_path)


\* Lines 362-364 and 302-308: the upload is validated, then mkstemp creates
\* the temporary file.  A rejected upload is answered with 400 and no file
\* was created for it.
UploadReceive(i) ==
    /\ uploads.requests[i].pc = "start"
    /\ LET request == uploads.requests[i]
           saved == save_uploaded_file(request.file).outcome
       IN IF saved.raised /\ saved.error = "ValueError"
          THEN uploads' = [uploads EXCEPT
                   !.requests[i].pc = "finally",
                   !.requests[i].status = HandleException(saved).status]
          ELSE \E path \in FreePaths(uploads.disk) :
                   uploads' = [uploads EXCEPT
                       !.requests[i].pc = "save",
                       !.requests[i].temp_path = path,
                       !.disk = @ \cup {[path |-> path, owner |-> i]}]
    /\ UNCHANGED <<Config, call, history, extraction, handler, workers, tester, batch>>

\* Lines 310-321: file_storage.save.  When it fails, save_uploaded_file
\* removes the file it created (a removal that can itself fail and is then
\* ignored) and raises; the handler's temp_file_path stays None.
UploadSave(i) ==
    /\ uploads.requests[i].pc = "save"
    /\ LET request == uploads.requests[i]
           saved == save_uploaded_file(request.file).outcome
       IN IF saved.raised
          THEN \E removed \in BOOLEAN :
                   uploads' = [uploads EXCEPT
                       !.requests[i].pc = "finally",
                       !.requests[i].status = HandleException(saved).status,
                       !.requests[i].remove_failed = ~removed,
                       !.disk = IF removed THEN Without(@, request.temp_path) ELSE @,
                       !.removals = IF removed
                                    THEN @ \cup RemovedBy(i, uploads.disk, request.temp_path)
                                    ELSE @]
          ELSE uploads' = [uploads EXCEPT
                   !.requests[i].pc = "run",
                   !.requests[i].temp_file_path = request.temp_path]
    /\ UNCHANGED <<Config, call, history, extraction, handler, workers, tester, batch>>

\* Lines 385-441: the rest of the handler, up to its response.
UploadRun(i) ==
    /\ uploads.requests[i].pc = "run"
    /\ \E ending \in UploadEndings :
           uploads' = [uploads EXCEPT
               !.requests[i].pc = "finally",
               !.requests[i].status = EndingStatus(ending)]
    /\ UNCHANGED <<Config, call, history, extraction, handler, workers, tester, batch>>

\* Lines 443-450: the finally clause.
UploadFinally(i) ==
    /\ uploads.requests[i].pc = "finally"
    /\ LET request == uploads.requests[i]
       IN IF FinallyRemoves(request, uploads.disk)
          THEN \E removed \in BOOLEAN :
                   uploads' = [uploads EXCEPT
                       !.requests[i].pc = "done",
                       !.requests[i].remove_failed = @ \/ ~removed,
                       !.disk = IF removed THEN Without(@, request.temp_file_path) ELSE @,
                       !.removals = IF removed
                                    THEN @ \cup RemovedBy(i, uploads.disk, request.temp_file_path)
                                    ELSE @]
          ELSE uploads' = [uploads EXCEPT !.requests[i].pc = "done"]
    /\ UNCHANGED <<Config, call, history, extraction, handler, workers, tester, batch>>

NextUploads ==
    \E i \in Uploaders :
        \/ UploadReceive(i)
        \/ UploadSave(i)
        \/ UploadRun(i)
        \/ UploadFinally(i)

SpecUploads == InitUploads /\ [][NextUploads]_vars

(***************************************************************************)
(* The temporary file of an upload.                                        *)
(***************************************************************************)
OwnFiles(i) == {f \in uploads.disk : f.owner = i}

\* C25: when the handler of a file upload has returned, however the request
\* ended, the temporary file created for it no longer exists, provided no
\* removal of it failed; and no request ever removes a file that was created
\* for another request.
C25_TempFileRemoved ==
    uploads.pc = "idle"
    \/ /\ \A i \in Uploaders :
              (uploads.requests[i].pc = "done" /\ ~uploads.requests[i].remove_failed)
                  => OwnFiles(i) = {}
       /\ \A r \in uploads.removals : r.by = r.owner

\* Request 1 has returned after a failed workflow and its file is gone,
\* removed by itself, while the file of request 2 is still in place.
C25_Witness ==
    /\ uploads.pc # "idle"
    /\ uploads.requests[1].pc = "done"
    /\ uploads.requests[1].status = 500
    /\ uploads.requests[1].temp_file_path # NoPath
    /\ ~uploads.requests[1].remove_failed
    /\ [by |-> 1, owner |-> 1] \in uploads.removals
    /\ uploads.requests[2].pc = "run"
    /\ OwnFiles(2) # {}


(***************************************************************************)
(* The two workflow calls issued together.  The handler of the source      *)
(* makes them one after the other (lines 395-398); here a caller has       *)
(* issued both before waiting for either, the responses arrive in either   *)
(* order, and the handler goes on as the source does once both are there.  *)
(*   call      what the handler of the source computes from the same two   *)
(*             responses, kept for reference                               *)
(***************************************************************************)
ParallelOutcomes == {Returns(r) : r \in ArbiterResponses} \cup WorkflowErrors

\* What the sequential handler arbitrates from two responses: line 408.
Reference(rice_remote, wheat_remote) ==
    IF run_workflow(rice_remote).raised \/ run_workflow(wheat_remote).raised
    THEN NoCall
    ELSE CallRecord(run_workflow(rice_remote).val, run_workflow(wheat_remote).val)

IssuedBoth(rice_remote, wheat_remote) ==
    [NewHandler("predict", Json(Dict([image_url |-> Url]))) EXCEPT
        !.pc = "both",
        !.image_source = Url,
        !.rice_remote = rice_remote,
        !.wheat_remote = wheat_remote]

InitParallel ==
    /\ \E env \in Environments : Config = ConfigFrom(env)
    /\ history = <<>>
    /\ extraction = NoCall
    /\ \E rice_remote \in ParallelOutcomes, wheat_remote \in ParallelOutcomes :
           /\ handler = IssuedBoth(rice_remote, wheat_remote)
           /\ call = Reference(rice_remote, wheat_remote)
    /\ NoConcurrency

\* Where the handler goes on when both calls are over.
Joined(rice, wheat) ==
    IF rice = Pending \/ wheat = Pending THEN "both"
    ELSE IF rice.raised \/ wheat.raised THEN "failed"
    ELSE "select"

CompleteRice ==
    /\ handler.pc = "both" /\ handler.rice = Pending
    /\ handler' = [handler EXCEPT
                      !.rice = run_workflow(handler.rice_remote),
                      !.events = handler.events \o RemoteCalls("rice", handler.rice_remote),
                      !.pc = Joined(run_workflow(handler.rice_remote), handler.wheat)]
    /\ UNCHANGED <<Config, call, history, extraction, concurrent>>

CompleteWheat ==
    /\ handler.pc = "both" /\ handler.wheat = Pending
    /\ handler' = [handler EXCEPT
                      !.wheat = run_workflow(handler.wheat_remote),
                      !.events = handler.events \o RemoteCalls("wheat", handler.wheat_remote),
                      !.pc = Joined(handler.rice, run_workflow(handler.wheat_remote))]
    /\ UNCHANGED <<Config, call, history, extraction, concurrent>>

NextParallel ==
    \/ CompleteRice
    \/ CompleteWheat
    \/ WorkflowFailed
    \/ Respond
    \/ Finally

SpecParallel == InitParallel /\ [][NextParallel]_vars

Arbitrated == handler.pc \in {"finally", "done"} /\ call.made

MaxThreads == 2

Threads == 1..MaxThreads

SharedResponses ==
    [high |-> Nested(<<D50, D90>>),
     low |-> Flat(<<Detection(Absent, Float(35), Absent), Str(S_high)>>),
     wrapped |-> Wrapped(<<Nested(<<D50, Detection(Float(47), Absent, Absent)>>)>>),
     huge |-> Nested(<<D90, Detection(HugeInt, Absent, Absent)>>),
     odd |-> Str(S_high)]

ThreadCalls ==
    {[rice_result |-> "high", wheat_result |-> "wrapped"],
     [rice_result |-> "wrapped", wheat_result |-> "high"],
     [rice_result |-> "low", wheat_result |-> "huge"],
     [rice_result |-> "wrapped", wheat_result |-> "odd"]}

\* Lines 160-176: the list the loop of extract_max_confidence runs over, or
\* the early return of 0.0.
PredictionsList(result) ==
    LET first == IF IsList(result) /\ Truthy(result)
                 THEN result.items[1] ELSE result
    IN  IF ~IsDict(first) THEN [returns |-> TRUE, items |-> <<>>]
        ELSE LET predictions_block == Get(first, "predictions", EmptyDict)
                 predictions_list ==
                     IF IsDict(predictions_block)
                     THEN Get(predictions_block, "predictions", EmptyList)
                     ELSE IF IsList(predictions_block)
                          THEN predictions_block ELSE EmptyList
             IN  IF ~IsList(predictions_list)
                 THEN [returns |-> TRUE, items |-> <<>>]
                 ELSE [returns |-> FALSE, items |-> predictions_list.items]

\* Where the locals of a call live: predictions_list and max_confidence
\* (line 178) are local variables, one set per call.
\* A variant that keeps them in one module-level place.
Frame_global(t) == 1

Frame(t) == t

NoFrame == [predictions_list |-> <<>>, max_confidence |-> 0]

NewThread(args) ==
    [pc |-> "enter", of |-> "rice_result", args |-> args,
     confidence |-> [rice_result |-> 0, wheat_result |-> 0],
     ret |-> NoCall, predictions |-> None]

InitThreads ==
    /\ \E env \in {[n \in {} |-> S_empty], [MIN_CONFIDENCE |-> <<"0", ".", "5">>]} :
           Config = ConfigFrom(env)
    /\ call = NoCall
    /\ history = <<>>
    /\ extraction = NoCall
    /\ handler = Idle
    /\ uploads = Idle
    /\ \E calls \in [Threads -> ThreadCalls] :
           workers = [pc |-> "running",
                      heap |-> SharedResponses,
                      threads |-> [t \in Threads |-> NewThread(calls[t])],
                      frames |-> [t \in Threads |-> NoFrame]]
    /\ tester = Idle /\ batch = Idle

\* extract_max_confidence has returned value to select_best_model:
\* lines 249-250.
Returned_to(thread, value) ==
    [thread EXCEPT
        !.confidence[thread.of] = value,
        !.pc = IF thread.of = "rice_result" THEN "enter" ELSE "decide",
        !.of = "wheat_result"]

\* Lines 159-178: extract_max_confidence is entered with one of the two
\* responses.
ThreadEnter(t) ==
    /\ workers.threads[t].pc = "enter"
    /\ LET thread == workers.threads[t]
           list == PredictionsList(workers.heap[thread.args[thread.of]])
       IN  workers' =
               IF list.returns
               THEN [workers EXCEPT !.threads[t] = Returned_to(thread, 0)]
               ELSE [workers EXCEPT
                        !.threads[t].pc = "loop",
                        !.frames[Frame(t)] =
                            [predictions_list |-> list.items,
                             max_confidence |-> 0]]
    /\ UNCHANGED <<Config, call, history, extraction, handler, uploads, tester, batch>>

\* Lines 179-201: one turn of the loop, or its end.
ThreadLoop(t) ==
    /\ workers.threads[t].pc = "loop"
    /\ LET thread == workers.threads[t]
           frame == workers.frames[Frame(t)]
       IN  IF frame.predictions_list = <<>>
           THEN workers' = [workers EXCEPT
                    !.threads[t] = Returned_to(thread, frame.max_confidence)]
           ELSE \E turn \in {MaxConfidenceLoop(<<Head(frame.predictions_list)>>,
                                               frame.max_confidence)} :
                    workers' =
                        IF turn.raised
                        THEN [workers EXCEPT
                                 !.threads[t] =
                                     Returned_to(thread, ExceptMaxConfidence(turn).val)]
                        ELSE [workers EXCEPT
                                 !.frames[Frame(t)] =
                                     [predictions_list |-> Tail(frame.predictions_list),
                                      max_confidence |-> turn.val]]
    /\ UNCHANGED <<Config, call, history, extraction, handler, uploads, tester, batch>>

\* Lines 255-276: the decision of select_best_model.
ThreadDecide(t) ==
    /\ workers.threads[t].pc = "decide"
    /\ LET thread == workers.threads[t]
           rice_confidence == thread.confidence.rice_result
           wheat_confidence == thread.confidence.wheat_result
       IN  workers' = [workers EXCEPT
               !.threads[t].pc = "predictions",
               !.threads[t].ret =
                   IF rice_confidence < MinConfidence
                      /\ wheat_confidence < MinConfidence
                   THEN BelowMinimum(rice_confidence, wheat_confidence,
                                     thread.args.rice_result, thread.args.wheat_result)
                   ELSE AboveMinimum(rice_confidence, wheat_confidence,
                                     thread.args.rice_result, thread.args.wheat_result)]
    /\ UNCHANGED <<Config, call, history, extraction, handler, uploads, tester, batch>>

\* extract_predictions on the chosen response, as line 411 calls it.
ThreadPredictions(t) ==
    /\ workers.threads[t].pc = "predictions"
    /\ workers' = [workers EXCEPT
           !.threads[t].pc = "done",
           !.threads[t].predictions =
               extract_predictions(workers.heap[workers.threads[t].ret.source])]
    /\ UNCHANGED <<Config, call, history, extraction, handler, uploads, tester, batch>>

NextThreads ==
    \E t \in Threads :
        \/ ThreadEnter(t)
        \/ ThreadLoop(t)
        \/ ThreadDecide(t)
        \/ ThreadPredictions(t)

SpecThreads == InitThreads /\ [][NextThreads]_vars

(***************************************************************************)
(* The core under concurrent calls.                                        *)
(***************************************************************************)
\* What the call of a thread returns when it runs alone.
Alone(t) ==
    select_best_model(SharedResponses[workers.threads[t].args.rice_result],
                      SharedResponses[workers.threads[t].args.wheat_result])

\* C21: whatever the interleaving of the threads, each call of
\* select_best_model and extract_predictions returns what it returns when
\* run alone, and the responses passed in are never modified.
C21_ThreadsDoNotInterfere ==
    workers.pc = "idle"
    \/ /\ workers.heap = SharedResponses
       /\ \A t \in Threads :
              workers.threads[t].pc = "done" =>
                  LET thread == workers.threads[t]
                  IN  /\ thread.ret.chosen = Alone(t).chosen
                      /\ thread.ret.confidence = Alone(t).confidence
                      /\ workers.heap[thread.ret.source] = Alone(t).source
                      /\ thread.predictions = extract_predictions(Alone(t).source)

\* Thread 1 has returned with rice chosen from a response that thread 2,
\* which is in the middle of its loop over it, shares.
C21_Witness ==
    /\ workers.pc # "idle"
    /\ workers.threads[1].pc = "done"
    /\ workers.threads[1].ret.chosen = "rice"
    /\ workers.threads[2].pc = "loop"
    /\ workers.threads[2].args = workers.threads[1].args
    /\ workers.frames[2].max_confidence > 0
    /\ workers.frames[2].predictions_list # <<>>


(***************************************************************************)
(* examples/performance_test.py: run_concurrent_test.  One event loop runs *)
(* a task per request; a task acquires the semaphore, makes its request    *)
(* and releases the semaphore when make_request_async has returned.        *)
(*   tester.semaphore   the value of the semaphore                         *)
(*   tester.requests    request -> where its task stands, and its result   *)
(*   tester.results     the results the coordinating coroutine has         *)
(*                      collected, in the order of completion              *)
(***************************************************************************)
MaxRequests == 3

MaxPool == 2

TestTypes == <<"health", "url_predict", "unknown">>

\* The test data of a run: the two kinds the load tests send, and one the
\* tester does not know.
TestDataList(n) == [i \in 1..n |-> [type |-> TestTypes[((i - 1) % 3) + 1]]]

\* What the service, or the transport, answers a request with.
HttpOutcomes ==
    {[raised |-> FALSE, status |-> 200], [raised |-> FALSE, status |-> 400],
     [raised |-> FALSE, status |-> 500], [raised |-> TRUE, status |-> 0]}

\* make_request_async, lines 30-72.
make_request_async(test_data, http) ==
    IF test_data.type \in {"health", "url_predict"}
    THEN IF http.raised
         THEN [success |-> FALSE, status_code |-> 0, test_type |-> test_data.type]
         ELSE [success |-> 200 <= http.status /\ http.status < 300,
               status_code |-> http.status, test_type |-> test_data.type]
    ELSE [success |-> FALSE, status_code |-> 500, test_type |-> test_data.type]

\* asyncio.Semaphore(max_concurrent), line 76.
\* A variant with a permit for every request.
Semaphore_per_request(max_concurrent, test_data_list) ==
    max_concurrent * Len(test_data_list)

Semaphore(max_concurrent, test_data_list) == max_concurrent

NoResult == [success |-> FALSE, status_code |-> 0, test_type |-> "none"]

InitTester ==
    /\ Config = ConfigFrom([n \in {} |-> S_empty])
    /\ call = NoCall
    /\ history = <<>>
    /\ extraction = NoCall
    /\ handler = Idle
    /\ uploads = Idle /\ workers = Idle /\ batch = Idle
    /\ \E max_concurrent \in 0..MaxPool, n \in 0..MaxRequests :
           tester = [pc |-> "gathering",
                     max_concurrent |-> max_concurrent,
                     test_data_list |-> TestDataList(n),
                     semaphore |-> Semaphore(max_concurrent, TestDataList(n)),
                     requests |-> [i \in 1..n |->
                                      [pc |-> "created", result |-> NoResult]],
                     results |-> <<>>]

\* `async with semaphore`, line 79: entered when a permit is free.
TesterAcquire(i) ==
    /\ tester.requests[i].pc = "created"
    /\ tester.semaphore > 0
    /\ tester' = [tester EXCEPT !.semaphore = @ - 1,
                                !.requests[i].pc = "in_flight"]
    /\ UNCHANGED <<Config, call, history, extraction, handler, uploads, workers, batch>>

\* Line 80: make_request_async returns, with a response or after an
\* exception, and the `async with` block is left.
TesterComplete(i) ==
    /\ tester.requests[i].pc = "in_flight"
    /\ \E http \in HttpOutcomes :
           tester' = [tester EXCEPT
               !.semaphore = @ + 1,
               !.requests[i].pc = "finished",
               !.requests[i].result =
                   make_request_async(tester.test_data_list[i], http)]
    /\ UNCHANGED <<Config, call, history, extraction, handler, uploads, workers, batch>>

\* Lines 91-94: the next completed task is awaited and its result kept.
TesterCollect(i) ==
    /\ tester.pc = "gathering"
    /\ tester.requests[i].pc = "finished"
    /\ tester' = [tester EXCEPT
           !.requests[i].pc = "collected",
           !.results = Append(@, tester.requests[i].result)]
    /\ UNCHANGED <<Config, call, history, extraction, handler, uploads, workers, batch>>

\* Line 99.
TesterReturn ==
    /\ tester.pc = "gathering"
    /\ \A i \in DOMAIN tester.requests : tester.requests[i].pc = "collected"
    /\ tester' = [tester EXCEPT !.pc = "returned"]
    /\ UNCHANGED <<Config, call, history, extraction, handler, uploads, workers, batch>>

TesterTasks == IF tester.pc = "idle" THEN {} ELSE DOMAIN tester.requests

NextTester ==
    \/ \E i \in TesterTasks :
           \/ TesterAcquire(i)
           \/ TesterComplete(i)
           \/ TesterCollect(i)
    \/ TesterReturn


(***************************************************************************)
(* examples/batch_process.py: process_files and process_urls.  The         *)
(* coordinating thread submits one task per input to a pool of             *)
(* max_workers threads and collects the futures as they complete; a pool   *)
(* thread takes the next task of the queue, runs it and completes its      *)
(* future with what the task returned or raised.                           *)
(*   batch.futures   task -> pending, running, or the outcome of the task  *)
(*   batch.queue     the tasks submitted and not yet taken by a thread     *)
(*   batch.threads   pool thread -> the task it runs (0: none)             *)
(*   batch.results   the list the coordinating thread builds               *)
(***************************************************************************)
MaxPaths == 3

\* What may happen to a request for one image.
HttpResponse(status_code, body) == [status_code |-> status_code, body |-> body]

Attempts ==
    {[readable |-> FALSE, post |-> Returns(HttpResponse(200, "prediction"))],
     [readable |-> TRUE, post |-> Raises("ConnectionError", Message("connection refused"))],
     [readable |-> TRUE, post |-> Returns(HttpResponse(200, "prediction"))],
     [readable |-> TRUE, post |-> Returns(HttpResponse(200, "prediction, confidence a string"))],
     [readable |-> TRUE, post |-> Returns(HttpResponse(200, "other json"))],
     [readable |-> TRUE, post |-> Returns(HttpResponse(200, "not json"))],
     [readable |-> TRUE, post |-> Returns(HttpResponse(400, "error"))],
     [readable |-> TRUE, post |-> Returns(HttpResponse(500, "error"))]}

SuccessRecord(input, confidence) ==
    [input |-> input, success |-> TRUE, confidence |-> confidence,
     error |-> "None"]

ErrorRecord(input, error) ==
    [input |-> input, success |-> FALSE, confidence |-> "absent",
     error |-> error]

\* Lines 49-67 and 93-111: the record made of a response.  Reading a body
\* that is no JSON, or that lacks a key, raises.
FromResponse(input, response) ==
    IF response.status_code = 200
    THEN IF response.body = "prediction"
         THEN Returns(SuccessRecord(input, "number"))
         ELSE IF response.body = "prediction, confidence a string"
         THEN Returns(SuccessRecord(input, "string"))
         ELSE IF response.body = "not json"
         THEN Raises("JSONDecodeError", Message("not json"))
         ELSE Raises("KeyError", Message("chosen_model"))
    ELSE Returns(ErrorRecord(input, "HTTP"))

\* Lines 69-75 and 113-119: `except Exception`.
\* A variant that lets the exceptions of the transport through.
ExceptRequest_transport_raises(input, outcome) ==
    IF outcome.raised /\ outcome.error # "ConnectionError"
    THEN Returns(ErrorRecord(input, "exception"))
    ELSE outcome

ExceptRequest(input, outcome) ==
    IF outcome.raised THEN Returns(ErrorRecord(input, "exception"))
    ELSE outcome

\* process_image_file, lines 33-75.
process_image_file(image_path, attempt) ==
    ExceptRequest(image_path,
        IF ~attempt.readable
        THEN Raises("FileNotFoundError", Message("no such file"))
        ELSE IF attempt.post.raised THEN attempt.post
        ELSE FromResponse(image_path, attempt.post.val))

\* process_image_url, lines 77-119: no file is opened.
process_image_url(image_url, attempt) ==
    ExceptRequest(image_url,
        IF attempt.post.raised THEN attempt.post
        ELSE FromResponse(image_url, attempt.post.val))

\* ThreadPoolExecutor(max_workers=self.max_workers), lines 174 and 200: the
\* threads of the pool.
\* A variant with a thread for every input.
PoolThreads_per_input(max_workers, inputs) == 1..Len(inputs)

PoolThreads(max_workers, inputs) == 1..max_workers

\* No task: the marker of an idle pool thread.
NoTask == 0

\* The lists of paths or URLs given: a path may be given twice.
Paths == <<"a", "a", "b">>

InputLists == {[i \in 1..n |-> Paths[((i - 1) % 3) + 1]] : n \in 0..MaxPaths}

InitBatch ==
    /\ Config = ConfigFrom([n \in {} |-> S_empty])
    /\ call = NoCall
    /\ history = <<>>
    /\ extraction = NoCall
    /\ handler = Idle
    /\ uploads = Idle /\ workers = Idle /\ tester = Idle
    /\ \E max_workers \in 0..MaxPool, inputs \in InputLists,
          method \in {"process_files", "process_urls"} :
           batch = [pc |-> "start",
                    method |-> method,
                    max_workers |-> max_workers,
                    inputs |-> inputs,
                    futures |-> [i \in DOMAIN inputs |-> Pending],
                    submitted |-> 0,
                    queue |-> <<>>,
                    threads |-> [w \in PoolThreads(max_workers, inputs) |-> NoTask],
                    results |-> <<>>]

Running == [raised |-> FALSE, val |-> None, error |-> "running"]

Finished(future) == future # Pending /\ future # Running

\* Lines 174 and 200: the pool is made, which raises ValueError unless
\* max_workers is greater than 0.
BatchOpen ==
    /\ batch.pc = "start"
    /\ batch' = [batch EXCEPT
                    !.pc = IF batch.max_workers > 0 THEN "submitting" ELSE "raised"]
    /\ UNCHANGED <<Config, call, history, extraction, handler, uploads, workers, tester>>

\* Lines 187-192: the progress line of a record.  A success is printed with
\* its confidence formatted as a number ({result['confidence']:.3f}), which
\* raises for anything else.
Printable(record) == record.success => record.confidence = "number"

\* Lines 176-179 and 202-205: executor.submit for the next input.
BatchSubmit ==
    /\ batch.pc = "submitting"
    /\ batch.submitted < Len(batch.inputs)
    /\ batch' = [batch EXCEPT !.submitted = @ + 1,
                              !.queue = Append(@, batch.submitted + 1)]
    /\ UNCHANGED <<Config, call, history, extraction, handler, uploads, workers, tester>>

\* All inputs are submitted: as_completed is entered, lines 182 and 208.
BatchSubmitted ==
    /\ batch.pc = "submitting"
    /\ batch.submitted = Len(batch.inputs)
    /\ batch' = [batch EXCEPT !.pc = "collecting"]
    /\ UNCHANGED <<Config, call, history, extraction, handler, uploads, workers, tester>>

\* A thread of the pool takes the next task of the queue.
BatchStart(w) ==
    /\ batch.threads[w] = NoTask
    /\ batch.queue # <<>>
    /\ batch' = [batch EXCEPT !.threads[w] = Head(batch.queue),
                              !.queue = Tail(@),
                              !.futures[Head(batch.queue)] = Running]
    /\ UNCHANGED <<Config, call, history, extraction, handler, uploads, workers, tester>>

\* The task of a thread returns or raises, and its future is completed.
BatchFinish(w) ==
    /\ batch.threads[w] # NoTask
    /\ \E attempt \in Attempts :
           LET task == batch.threads[w]
           IN  batch' = [batch EXCEPT
                   !.threads[w] = NoTask,
                   !.futures[task] =
                       IF batch.method = "process_files"
                       THEN process_image_file(batch.inputs[task], attempt)
                       ELSE process_image_url(batch.inputs[task], attempt)]
    /\ UNCHANGED <<Config, call, history, extraction, handler, uploads, workers, tester>>

\* Lines 182-192 and 208-218: a completed future is taken, future.result()
\* returns its record, which is appended and printed, or raises what the
\* task raised.
BatchCollect(task) ==
    /\ batch.pc = "collecting"
    /\ Finished(batch.futures[task])
    /\ \A i \in DOMAIN batch.results : batch.results[i].task # task
    /\ batch' =
           IF batch.futures[task].raised
           THEN [batch EXCEPT !.pc = "raising"]
           ELSE [batch EXCEPT
                    !.results = Append(@, [task |-> task,
                                           record |-> batch.futures[task].val]),
                    !.pc = IF Printable(batch.futures[task].val)
                           THEN "collecting" ELSE "raising"]
    /\ UNCHANGED <<Config, call, history, extraction, handler, uploads, workers, tester>>

\* The `with` block is left, which waits for the pool, and process_files
\* returns the results (lines 194, 220) or the exception goes on.
BatchReturn ==
    /\ \/ /\ batch.pc = "collecting"
          /\ Len(batch.results) = Len(batch.inputs)
       \/ batch.pc = "raising"
    /\ batch.queue = <<>>
    /\ \A w \in DOMAIN batch.threads : batch.threads[w] = NoTask
    /\ batch' = [batch EXCEPT
                    !.pc = IF batch.pc = "raising" THEN "raised" ELSE "returned"]
    /\ UNCHANGED <<Config, call, history, extraction, handler, uploads, workers, tester>>

BatchThreads == IF batch.pc = "idle" THEN {} ELSE DOMAIN batch.threads

BatchTasks == IF batch.pc = "idle" THEN {} ELSE DOMAIN batch.inputs

NextBatch ==
    \/ BatchOpen
    \/ BatchSubmit
    \/ BatchSubmitted
    \/ \E w \in BatchThreads : BatchStart(w) \/ BatchFinish(w)
    \/ \E task \in BatchTasks : BatchCollect(task)
    \/ BatchReturn

\* Either tool, run on its own.
InitFanOut == InitTester \/ InitBatch

NextFanOut == NextTester \/ NextBatch

SpecFanOut == InitFanOut /\ [][NextFanOut]_vars


\* The threads of the pool run whenever they can, a request ends within its
\* timeout (timeout=60, lines 43 and 87), and the coordinating thread goes on
\* whenever it can.
SpecBatch == InitBatch /\ [][NextBatch]_vars /\ WF_vars(NextBatch)

(***************************************************************************)
(* The fan-out tools.                                                      *)
(***************************************************************************)
Permits == Semaphore(tester.max_concurrent, tester.test_data_list)

InFlight == {i \in TesterTasks : tester.requests[i].pc = "in_flight"}

Busy == {w \in BatchThreads : batch.threads[w] # NoTask}

\* C23: run_concurrent_test never has more than max_concurrent requests in
\* flight, a request holding a permit of the semaphore from before it is sent
\* until its result is there, whether a response or an error; and the batch
\* processor never has more than max_workers requests being processed.
C23_BoundedParallelism ==
    /\ tester.pc # "idle" =>
           /\ Cardinality(InFlight) <= tester.max_concurrent
           /\ Permits - tester.semaphore = Cardinality(InFlight)
    /\ batch.pc # "idle" => Cardinality(Busy) <= batch.max_workers

\* Of three requests and two permits: the first has ended in an error and
\* given its permit back, the other two are in flight and no permit is left.
C23_Witness ==
    /\ tester.pc = "gathering"
    /\ tester.max_concurrent = 2
    /\ Len(tester.test_data_list) = 3
    /\ tester.requests[1].pc = "finished"
    /\ tester.requests[1].result.status_code = 0
    /\ InFlight = {2, 3}
    /\ tester.semaphore = 0

Returned_results == batch.pc = "returned"

ResultsOf(task) == {i \in DOMAIN batch.results : batch.results[i].task = task}

IsRecordFor(record, input) ==
    /\ record.input = input
    /\ \/ record.success /\ record.error = "None"
       \/ ~record.success /\ record.error \in {"HTTP", "exception"}

\* A task has returned a success record whose confidence is no number.
ConfidenceNotANumber ==
    \E task \in BatchTasks :
        /\ Finished(batch.futures[task])
        /\ ~batch.futures[task].raised
        /\ ~Printable(batch.futures[task].val)

OneResultPerInput ==
    /\ Len(batch.results) = Len(batch.inputs)
    /\ \A task \in DOMAIN batch.inputs :
           /\ Cardinality(ResultsOf(task)) = 1
           /\ \A i \in ResultsOf(task) :
                  IsRecordFor(batch.results[i].record, batch.inputs[task])

AppendedByCoordinator ==
    batch.results' # batch.results =>
        /\ batch.pc = "collecting"
        /\ batch.threads' = batch.threads
        /\ \E record \in {batch.results'[Len(batch.results')]} :
               batch.results' = Append(batch.results, record)

\* C30: process_files and process_urls return, whatever the order in which
\* the tasks complete; the list returned has exactly one record for each
\* input, a success record or an error record; and the list grows only by an
\* append of the coordinating thread.
C30_OneResultPerInput ==
    /\ <>Returned_results
    /\ [](Returned_results => OneResultPerInput)
    /\ [][AppendedByCoordinator]_vars

\* C30, as it holds: with max_workers greater than 0, and every success
\* record carrying a number as its confidence (as the records made of this
\* service's responses do), process_files and process_urls return; the list
\* returned has exactly one record for each input, a success record or an
\* error record; and the list grows only by an append of the coordinating
\* thread.
C30_OneResultPerInputOfAPool ==
    /\ <>(Returned_results \/ batch.max_workers < 1 \/ ConfidenceNotANumber)
    /\ [](Returned_results => OneResultPerInput)
    /\ [][AppendedByCoordinator]_vars

\* Three paths, the first given twice, returned with the result of the last
\* submitted first; a success and an error among them.
C30_Witness ==
    /\ Returned_results
    /\ batch.method = "process_files"
    /\ batch.inputs = <<"a", "a", "b">>
    /\ batch.results[1].task = 3
    /\ batch.results[1].record.success
    /\ ~batch.results[2].record.success
    /\ batch.results[2].record.error = "exception"
    /\ OneResultPerInput

====
